---------------------------- MODULE Spec2Model ----------------------------
(***************************************************************************)
(* Job-posting pipeline (NageshMandal/Data-Scraping): rate limiters, the   *)
(* checkpointed scraping stages and the classification stage, each as a    *)
(* state machine translated from the Python source.                        *)
(*                                                                         *)
(* The module holds several specifications, one per component; the         *)
(* variables of the components a specification does not run keep their     *)
(* initial values.                                                         *)
(*   SpecRateLimiter        RateLimiter / APIRateLimiter.wait_if_needed    *)
(*   SpecCallers            RateLimiter with its blocked callers, with      *)
(*                          fairness                                        *)
(*   SpecServerRateLimiter  ServerRateLimiter.wait_if_needed (adaptive)    *)
(*   SpecUrls               build_url.py and scrap_urls.py, run after run   *)
(*   SpecUrlsOpt            scrap_urls_optimized.py, run after run          *)
(*   SpecUrlsOptSignal      the same, interrupted by SIGINT                 *)
(*   SpecUrlsOptFound       the same, with the job links of each base url   *)
(*   SpecJobsOpt            scrap_jobData_optimized.py, run after run       *)
(*   SpecClassify           data_classification.py, run after run           *)
(*   SpecClassifyOpt        data_classification_optimized.py, its workers   *)
(*   SpecJobsPool           scrap_jobData_optimized.py, three job urls,     *)
(*                          with fairness                                   *)
(*   SpecStatus             main.py --step status during the job stage      *)
(*   SpecControllers        main.py, main_optimized.py, main_linux_amd.py   *)
(*   SpecParse              the parsing of one completion                   *)
(*   SpecUrlsParallel       scrap_urls_parallel.py                          *)
(*   SpecIndex              simple_index_jobs.py, index_classified_jobs.py  *)
(*   SpecExtract            extract_job_data on one page                    *)
(*   SpecPageLoop           the page loop of one base url, with fairness    *)
(*   SpecBufferLock         the lock of the url buffer, with SIGINT         *)
(***************************************************************************)
EXTENDS Integers, Sequences, FiniteSets, TLC

(***************************************************************************)
(* Bounds of the model.                                                    *)
(***************************************************************************)
\* time.time() is counted in ticks; Window ticks are the limiter's 1.0 s.
Window == 3
\* The clock stops advancing at MaxTime.
MaxTime == 6
\* wait_if_needed is called at most MaxRequests times in a behaviour.
MaxRequests == 7
\* max_calls_per_second is 1 or MaxRate.
MaxRate == 5

\* A search URL has fewer than MaxPage pages of listings.
MaxPage == 2
\* BatchURLProcessor flushes at BatchSize buffered urls (BATCH_SIZE is 100).
BatchSize == 2
\* main saves wellfound_urls.json every SaveEvery completions (100).
SaveEvery == 2
\* A stage is run at most MaxRuns times.
MaxRuns == 2
\* process_jobs handles the jobs in batches of ClassifyBatch (batch_size=5).
ClassifyBatch == 2
\* The pool of scrap_urls_optimized.py runs MaxWorkers workers at a time
\* (MAX_WORKERS = 20).
MaxWorkers == 1
\* scrap_urls_parallel.py: every semaphore admits ConcurrentRequests tasks
\* (CONCURRENT_REQUESTS, 12 or 16 at most); a batch has TasksPerBatch urls.
ConcurrentRequests == 1
\* The pool of scrap_jobData_optimized.py has JobWorkers threads
\* (MAX_WORKERS = 15).
JobWorkers == 2
TasksPerBatch == 2
\* the classified jobs the indexing can find
MaxIndexed == 4
\* scrap_urls_server_optimized.py: max_pages (100) and the page after which
\* a listing of fewer than 10 links ends the loop (20)
ServerMaxPages == 2
DiminishingPage == 1
\* the job links one worker adds to the buffer
LinksPerWorker == 2

\* scrap_urls_optimized.py: MAX_RETRIES = 3
MAX_RETRIES == 3
\* scrap_urls_optimized.py: while consecutive_failures < 3
PageFailureLimit == 3

Threads == {"t1", "t2"}
NoThread == "none"

\* The entries of wellfound_urls.json, in file order, and the job links the
\* listing pages can show.
Entries == <<"u1", "u2">>
BaseUrls == {Entries[i] : i \in DOMAIN Entries}
JobLinks == {"j1", "j2"}
\* The job urls the job stage can find in job_urls.
JobKeys == JobLinks \cup {"j3"}
\* The documents of the collection jobs, in cursor order, the source urls
\* they can carry and the company names a classification can name ("" for
\* none).
Docs == <<"d1", "d2", "d3">>
DocIds == {Docs[i] : i \in DOMAIN Docs}
SourceUrls == {"k1", "k2"}
Companies == {"", "acme"}

VARIABLES
    \* ---- rate limiter (scrap_urls_optimized.py:37-56 and its copies) ----
    clock,            \* time.time(), in ticks
    max_calls,        \* self.max_calls
    calls,            \* self.calls: the timestamps of the window
    lock,             \* holder of self.lock, or NoThread
    adaptive_factor,  \* self.adaptive_factor, in tenths (10 is 1.0)
    profile,          \* which server limiter: "plain", "urls", "jobs", "classify"
    lpc,              \* per thread: "idle" or "sleeping" (inside time.sleep)
    wake,             \* per thread: the time its time.sleep ends
    released,         \* log: the timestamp of every call that returned
    nrequests,        \* log: calls of wait_if_needed so far
    slept,            \* log: some call went through time.sleep
    raised,           \* log: some call raised IndexError
    lc_calling,       \* threads that called wait_if_needed and are in it
    \* ---- persistent stores shared by the stages ----
    urls_file,        \* wellfound_urls.json: base url -> "value"
    job_urls,         \* collection job_urls (unique index on url)
    \* ---- scrap_urls.py ----
    su_pc,            \* "stopped", "loop" (line 186) or "scraping" (line 98)
    su_targets,       \* targets, the loaded entries
    su_i,             \* index of the entry the main loop is at
    su_page,          \* page
    su_attempt,       \* attempt
    su_outcome,       \* log, per base url: how its last scrape ended
    su_zero_done,     \* log: urls marked after a zero-results page
    su_refetched,     \* log: urls of su_zero_done requested again
    \* ---- scrap_urls_optimized.py ----
    so_pc,            \* main: "stopped" or "running" (inside the executor)
    so_targets,       \* targets, the loaded entries
    so_wpc,           \* per base url: "idle", "queued", "working", "done",
                      \*               "collected"
    so_page,          \* per worker: page
    so_attempt,       \* per worker: attempt of scrape_single_page
    so_failures,      \* per worker: consecutive_failures
    so_batch,         \* batch_processor.batch
    so_completed,     \* completed_count
    so_run,           \* log: runs of main started so far
    so_requests,      \* log, per worker: requests for its current page
    so_gave_up,       \* log: urls whose worker left on consecutive failures
    so_done_at_start, \* log: urls with value true when the run loaded them
    so_fetched,       \* log: urls requested during the run
    so_late,          \* log: urls a worker took up after the signal
    so_terminal,      \* log: urls whose page answered 404 or zero results
    so_found,         \* log, per base url followed: the job links its
                      \*   pages showed
    \* ---- scrap_jobData_optimized.py ----
    job_data,         \* collection job_data (unique index on url)
    sj_pc,            \* main: "stopped" or "running" (inside the executor)
    sj_wpc,           \* per job url: "idle", "queued", "scraping", "done"
    sj_attempt,       \* per worker: attempt
    sj_success,       \* per worker: the success it returned
    sj_run,           \* log: runs of main started so far
    sj_requests,      \* log, per job url: requests made in the run
    sj_only429,       \* log, per job url: every request so far met a 429
    sj_skipped,       \* log: urls with scraped true, met by a later run
    \* ---- data_classification.py ----
    jobs,             \* collection jobs: document -> its source_url
    classified_jobs,  \* collection classified_jobs, in insertion order
    es_jobs,          \* search index: company id -> length of its jobs list
    dc_pc,            \* "stopped", "classifying" (gather) or "saving"
    dc_todo,          \* the documents the cursor has not handed out yet
    dc_batch,         \* batch
    dc_results,       \* per document of the batch: result of its task
    dc_attempts,      \* per document: attempts of classify_job_post
    dc_i,             \* index of the result process_batch is at
    dc_run,           \* log: runs of process_jobs started so far
    dc_submitted,     \* log: source urls handed to a batch in the run
    dc_selected,      \* log: jobs the cursor of the run returned
    dc_handled,       \* log: jobs whose result process_batch has handled
    dc_failed,        \* log: jobs handled without a document being saved
    dc_parse_failed,  \* log: jobs in flight one of whose outputs did not
                      \*      parse
    dc_reasked,       \* log: jobs of the batch for which a request was
                      \*      sent after an output that did not parse
    \* data_classification_optimized.py
    co_pc,            \* main: "stopped" or "running"
    co_wpc,           \* per job: position of its classify_job_worker
    co_classification,\* per job: what classify_job_post returned
    co_message,       \* per job: the message its worker returned
    co_run,           \* number of runs started
    \* the controllers (main.py, main_optimized.py, main_linux_amd.py)
    ctl_controller,   \* which controller runs the pipeline
    env_creds,        \* the credentials set in the environment
    files,            \* per file: "missing", "empty" or "data"
    ctl_step,         \* --step: "all" or the stage to run
    ctl_status,       \* <<stats>> of the last --step status, or <<>>
    wf_shape,         \* JSON value of wellfound_urls.json: "list" or "dict"
    ctl_pc,           \* the stage the controller is at, or "returned"
    ctl_result,       \* what the run returned: "none", "True", "False"
    ctl_run,          \* number of runs started
    ctl_started,      \* log: stages started in the run, in order
    ctl_failed,       \* log: stages of the run whose script failed
    ctl_skipped,      \* log: stages the run skipped
    ctl_with_data,    \* log: stages reached with data in their artifact
    ctl_missing,      \* log: a credential or input file was found missing
    ctl_after_missing,\* log: stages started after that
    ctl_late_dispatch,\* log: work was dispatched after that
    la_not_done,      \* search urls never scraped with success
    la_attempted,     \* log: search urls requested in the run
    la_left,          \* log: la_not_done when the run started
    \* the parsing of a completion, by itself
    pr_raw,           \* the text of the completion
    pr_parser,        \* the function that parsed it, or "none"
    pr_result,        \* what the function returned, or "none"
    \* ---- scrap_urls_parallel.py ----
    pa_main,          \* main: "stopped" or "gathering" (a batch group)
    pa_pc,            \* per task: "idle", "waiting", "in_flight", "done"
    pa_attempt,       \* per task: attempt
    pa_page,          \* per task: page
    \* ---- simple_index_jobs.py, index_classified_jobs.py ----
    ix_script,        \* the script run, or "none"
    ix_pc,            \* "idle", "indexing" (the loop) or "exited"
    ix_success_count, \* success_count
    ix_error_count,   \* error_count
    ix_returned,      \* what the function returned, or "none"
    ix_returncode,    \* exit status of the script, -1 before it ends
    ix_reported,      \* what the controller's step returned, or "none"
    ix_prev,          \* the script of the run before this one when it
                      \* indexed every document, "partial" when it did
                      \* not, "none" in the first run
    es_job_docs,      \* search index: the documents whose id is the last
                      \*   segment of a job's source_url, by source_url
    \* ---- extract_job_data, by itself ----
    ex_page,          \* the page handed to it
    ex_extractor,     \* the script whose function ran, or "none"
    ex_result,        \* what it returned and the fields it extracted
    \* ---- the page loop of one base url, by itself ----
    pl_script,        \* the script whose loop runs, or "none"
    pl_pc,            \* "idle", "fetching" or "returned"
    pl_page,          \* page
    pl_attempt,       \* attempt, counted from 1
    pl_failures,      \* consecutive_failures
    pl_last,          \* the answer to the last request
    \* ---- the lock of BatchURLProcessor, by itself ----
    bl_main,          \* main: "stopped", "waiting" (as_completed),
                      \* "flushing" (holds the lock), "saving", "returned"
                      \* or "exited" (sys.exit)
    bl_handler,       \* signal_handler: "none", "called", "flushing"
                      \* (holds the lock), "exiting" or "done"
    bl_lock,          \* who holds batch_processor.lock, or "none"
    bl_wpc,           \* worker -> "idle", "working", "adding" or "done"
    bl_left,          \* worker -> the job links it has still to add
    bl_batch          \* len(batch_processor.batch)

limVars == <<clock, max_calls, calls, lock, adaptive_factor, profile, lpc,
             wake, released, nrequests, slept, raised, lc_calling>>

storeVars == <<urls_file, job_urls>>

suVars == <<su_pc, su_targets, su_i, su_page, su_attempt, su_outcome,
            su_zero_done, su_refetched>>

soVars == <<so_pc, so_targets, so_wpc, so_page, so_attempt, so_failures,
            so_batch, so_completed, so_run, so_requests, so_gave_up,
            so_done_at_start, so_fetched, so_late, so_terminal,
                   so_found>>

sjVars == <<job_data, sj_pc, sj_wpc, sj_attempt, sj_success, sj_run,
            sj_requests, sj_only429, sj_skipped>>

dcLogs == <<dc_submitted, dc_selected, dc_handled, dc_failed,
            dc_parse_failed, dc_reasked>>
dcVars == <<jobs, classified_jobs, es_jobs, dc_pc, dc_todo, dc_batch,
            dc_results, dc_attempts, dc_i, dc_run, dcLogs>>

coVars == <<co_pc, co_wpc, co_classification, co_message, co_run>>
ctlVars == <<ctl_controller, ctl_step, ctl_status, env_creds, files, wf_shape, ctl_pc,
             ctl_result,
             ctl_run, ctl_started, ctl_failed, ctl_skipped, ctl_with_data,
             ctl_missing, ctl_after_missing, ctl_late_dispatch, la_not_done,
             la_attempted, la_left>>
\* the components added to the first six
prVars == <<pr_raw, pr_parser, pr_result>>
paVars == <<pa_main, pa_pc, pa_attempt, pa_page>>
ixVars == <<ix_script, ix_pc, ix_success_count, ix_error_count, ix_returned,
            ix_returncode, ix_reported, ix_prev, es_job_docs>>
exVars == <<ex_page, ex_extractor, ex_result>>
plVars == <<pl_script, pl_pc, pl_page, pl_attempt, pl_failures, pl_last>>
blVars == <<bl_main, bl_handler, bl_lock, bl_wpc, bl_left, bl_batch>>
xVars == <<coVars, ctlVars, prVars, paVars, ixVars, exVars, plVars, blVars>>

vars == <<limVars, storeVars, suVars, soVars, sjVars, dcVars, xVars>>

(***************************************************************************)
(* Rate limiter.                                                           *)
(***************************************************************************)
\* [call_time for call_time in self.calls if now - call_time < 1.0]
Prune(cs, now) ==
    LET Keep(call_time) == now - call_time < Window
    IN  SelectSeq(cs, Keep)

\* (mutant: no wait for the oldest call to leave the window)
SleepTimeNone(cs, now) == 0
\* sleep_time = 1.0 - (now - self.calls[0])
SleepTime(cs, now) == Window - (now - cs[1])

\* The adaptive factors a server limiter can set, in tenths:
\* cpu/memory high, low, otherwise.
Factors(p) ==
    CASE p = "urls"     -> {7, 10, 12}
      [] p = "jobs"     -> {8, 10, 13}
      [] p = "classify" -> {7, 10, 12}
      [] OTHER          -> {10}

MaxFactor(p) == CHOOSE f \in Factors(p) : \A g \in Factors(p) : g <= f

\* effective_max_calls = int(self.max_calls * self.adaptive_factor)
\* (the float product truncates to this quotient for every max_calls < 90)
\* (mutant: the product rounded up instead of truncated)
EffectiveMaxCallsCeil(n, f) == (n * f + 9) \div 10
EffectiveMaxCalls(n, f) == (n * f) \div 10

InitLimiter(profiles) ==
    /\ clock = 0
    /\ max_calls \in {1, MaxRate}
    /\ calls = <<>>
    /\ lock = NoThread
    /\ adaptive_factor = 10
    /\ profile \in profiles
    /\ lpc = [th \in Threads |-> "idle"]
    /\ wake = [th \in Threads |-> 0]
    /\ released = <<>>
    /\ nrequests = 0
    /\ slept = FALSE
    /\ raised = FALSE
    /\ lc_calling = {}

\* wait_if_needed up to its return, its raise or its time.sleep: the lock is
\* taken, the window pruned, the load sampled and the capacity compared.
WaitIfNeeded(th) ==
    /\ lpc[th] = "idle"
    /\ lock = NoThread
    /\ nrequests < MaxRequests
    /\ nrequests' = nrequests + 1
    /\ \E f \in Factors(profile) :
         LET now == clock
             pruned == Prune(calls, now)
             effective_max_calls == EffectiveMaxCalls(max_calls, f)
         IN  /\ adaptive_factor' = f
             /\ IF Len(pruned) >= effective_max_calls
                THEN IF pruned = <<>>
                     THEN \* self.calls[0] of an empty list: IndexError,
                          \* the with-block releases the lock
                          /\ calls' = pruned
                          /\ raised' = TRUE
                          /\ UNCHANGED <<lock, lpc, wake, released, slept>>
                     ELSE IF SleepTime(pruned, now) > 0
                          THEN /\ calls' = pruned
                               /\ lock' = th
                               /\ lpc' = [lpc EXCEPT ![th] = "sleeping"]
                               /\ wake' = [wake EXCEPT
                                             ![th] = now + SleepTime(pruned, now)]
                               /\ slept' = TRUE
                               /\ UNCHANGED <<released, raised>>
                          ELSE /\ calls' = Append(pruned, now)
                               /\ released' = Append(released, now)
                               /\ UNCHANGED <<lock, lpc, wake, slept, raised>>
                ELSE /\ calls' = Append(pruned, now)
                     /\ released' = Append(released, now)
                     /\ UNCHANGED <<lock, lpc, wake, slept, raised>>
    /\ UNCHANGED <<clock, max_calls, profile>>

\* (mutant: the lock stays with the thread that leaves the with-block)
HoldLock(th) == th
\* the end of "with self.lock": the lock is released
ReleaseLock(th) == NoThread

\* time.sleep(sleep_time) returns (no earlier than asked), the window is
\* pruned again, now is appended and the lock released.
WakeUp(th) ==
    /\ lpc[th] = "sleeping"
    /\ clock >= wake[th]
    /\ LET now == clock
       IN  /\ calls' = Append(Prune(calls, now), now)
           /\ released' = Append(released, now)
    /\ lock' = ReleaseLock(th)
    /\ lpc' = [lpc EXCEPT ![th] = "idle"]
    /\ UNCHANGED <<clock, max_calls, adaptive_factor, profile, wake,
                   nrequests, slept, raised>>

\* Time passes.
Tick ==
    /\ clock < MaxTime
    /\ clock' = clock + 1
    /\ UNCHANGED <<max_calls, calls, lock, adaptive_factor, profile, lpc,
                   wake, released, nrequests, slept, raised>>

\* what the limiter leaves alone
CallersOthers == <<storeVars, suVars, soVars, sjVars, dcVars, xVars>>
LimOthers == <<lc_calling, CallersOthers>>

NextLimiter ==
    \/ \E th \in Threads : WaitIfNeeded(th) /\ UNCHANGED LimOthers
    \/ \E th \in Threads : WakeUp(th) /\ UNCHANGED LimOthers
    \/ Tick /\ UNCHANGED LimOthers

\* A worker thread calls wait_if_needed and blocks on "with self.lock"
\* until the lock is free.
LcCall(th) ==
    /\ lpc[th] = "idle"
    /\ th \notin lc_calling
    /\ nrequests + Cardinality(lc_calling) < MaxRequests
    /\ lc_calling' = lc_calling \cup {th}
    /\ UNCHANGED <<clock, max_calls, calls, lock, adaptive_factor, profile,
                   lpc, wake, released, nrequests, slept, raised>>

\* The blocked thread gets the lock: wait_if_needed up to its return or
\* its time.sleep.
LcEnter(th) ==
    /\ th \in lc_calling
    /\ WaitIfNeeded(th)
    /\ lc_calling' = IF lpc'[th] = "sleeping"
                     THEN lc_calling ELSE lc_calling \ {th}

\* The sleeping thread wakes up and wait_if_needed returns.
LcWake(th) ==
    /\ WakeUp(th)
    /\ lc_calling' = lc_calling \ {th}

\* Time passes: it does not stop while a thread is in time.sleep.
LcTick ==
    /\ \/ clock < MaxTime
       \/ \E th \in Threads : lpc[th] = "sleeping" /\ clock < wake[th]
    /\ clock' = clock + 1
    /\ UNCHANGED <<max_calls, calls, lock, adaptive_factor, profile, lpc,
                   wake, released, nrequests, slept, raised, lc_calling>>

NextCallers ==
    \/ \E th \in Threads : LcCall(th) /\ UNCHANGED CallersOthers
    \/ \E th \in Threads : LcEnter(th) /\ UNCHANGED CallersOthers
    \/ \E th \in Threads : LcWake(th) /\ UNCHANGED CallersOthers
    \/ LcTick /\ UNCHANGED CallersOthers

\* Every thread that can take a step of wait_if_needed takes it in the end,
\* and time goes on.
FairCallers ==
    /\ \A th \in Threads :
         /\ WF_vars(LcEnter(th) /\ UNCHANGED CallersOthers)
         /\ WF_vars(LcWake(th) /\ UNCHANGED CallersOthers)
    /\ WF_vars(LcTick /\ UNCHANGED CallersOthers)

\* A limiter nobody calls.
IdleLimiter == InitLimiter({"plain"}) /\ max_calls = 1

(***************************************************************************)
(* The stores: wellfound_urls.json and the collection job_urls.            *)
(***************************************************************************)
\* page_url = base_url if page == 1 else f"{base_url}?page={page}"
PageUrl(base_url, p) == <<base_url, p>>
\* full_url of a job link
JobUrl(href) == <<href, 0>>

\* update_one({"url": u}, {"$setOnInsert": doc}, upsert=True) for every doc
\* of docs, on a collection with a unique index on url: a stored document
\* is left as it is.
SetOnInsert(col, docs) ==
    col \cup {doc \in docs : ~ \E d \in col : d.url = doc.url}

\* {"url": full_url, "processed": False, "scraped": False}
NewJobUrl(href) ==
    [url |-> JobUrl(href), processed |-> FALSE, has_scraped |-> TRUE,
     scraped |-> FALSE]
\* {"url": page_url, "processed": False}: no field "scraped"
NotFoundDoc(base_url, p) ==
    [url |-> PageUrl(base_url, p), processed |-> FALSE, has_scraped |-> FALSE,
     scraped |-> FALSE]

\* wellfound_urls.json as build_url.py writes it, and an empty job_urls.
InitStores ==
    /\ urls_file = [u \in BaseUrls |-> FALSE]
    /\ job_urls = {}

(***************************************************************************)
(* scrap_urls.py: the sequential scraper of the search pages.              *)
(***************************************************************************)
\* What zenrows_request can hand back for a page: None, or a body that is
\* the 404 page, the zero-results page, a listing without job links, a
\* listing with job links, or one the parser raises on.  The last page of a
\* search has no listing.
SuResponses(p) ==
    IF p < MaxPage
    THEN {"none", "404", "zero", "nolinks", "links", "unparsable"}
    ELSE {"none", "404", "zero", "unparsable"}

InitUrls ==
    /\ su_pc = "stopped"
    /\ su_targets = [u \in BaseUrls |-> FALSE]
    /\ su_i = 1
    /\ su_page = 1
    /\ su_attempt = 1
    /\ su_outcome = [u \in BaseUrls |-> "never"]
    /\ su_zero_done = {}
    /\ su_refetched = {}

\* build_url.py: every url is written with "value": false.
BuildUrl ==
    /\ su_pc = "stopped"
    /\ urls_file' = [u \in BaseUrls |-> FALSE]
    /\ UNCHANGED <<job_urls, suVars, soVars, sjVars, dcVars, xVars>>

\* scrap_urls.py starts: targets = load_target_urls()
SuStart ==
    /\ su_pc = "stopped"
    /\ su_targets' = urls_file
    /\ su_i' = 1
    /\ su_pc' = "loop"
    /\ UNCHANGED <<storeVars, su_page, su_attempt, su_outcome, su_zero_done,
                   su_refetched>>

\* for i, entry in enumerate(targets, 1): if not entry.get("value", False)
SuNextEntry ==
    /\ su_pc = "loop"
    /\ IF su_i > Len(Entries)
       THEN /\ su_pc' = "stopped"
            /\ su_i' = 1
       ELSE IF su_targets[Entries[su_i]]
            THEN /\ su_i' = su_i + 1
                 /\ UNCHANGED su_pc
            ELSE /\ su_pc' = "scraping"
                 /\ UNCHANGED su_i
    /\ UNCHANGED <<storeVars, su_targets, su_page, su_attempt, su_outcome,
                   su_zero_done, su_refetched>>

\* scrape_pages_for_url has returned: entry["value"] = True and
\* save_target_urls(targets), whatever the scrape did.
SuMarkDone(base_url, res) ==
    /\ su_targets' = [su_targets EXCEPT ![base_url] = TRUE]
    /\ urls_file' = [su_targets EXCEPT ![base_url] = TRUE]
    /\ su_i' = su_i + 1
    /\ su_pc' = "loop"
    /\ su_page' = 1
    /\ su_attempt' = 1
    /\ su_outcome' = [su_outcome EXCEPT ![base_url] = res]
    /\ su_zero_done' = IF res = "zero" THEN su_zero_done \cup {base_url}
                                       ELSE su_zero_done

\* The retry loop goes to its next attempt.
SuRetry ==
    /\ su_attempt' = su_attempt + 1
    /\ UNCHANGED <<storeVars, su_pc, su_targets, su_i, su_page, su_outcome,
                   su_zero_done>>

\* break out of the retry loop: page += 1
SuNextPage ==
    /\ su_page' = su_page + 1
    /\ su_attempt' = 1
    /\ UNCHANGED <<urls_file, su_pc, su_targets, su_i, su_outcome,
                   su_zero_done>>

\* One pass of "for attempt in range(1, 4)" in scrape_pages_for_url, with
\* what follows it when the function returns.
SuAttempt ==
    /\ su_pc = "scraping"
    /\ LET base_url == Entries[su_i]
       IN  /\ su_refetched' = IF base_url \in su_zero_done
                              THEN su_refetched \cup {base_url}
                              ELSE su_refetched
           /\ \E html_src \in SuResponses(su_page) :
                CASE html_src \in {"none", "unparsable"} ->
                       IF su_attempt < 3
                       THEN SuRetry
                       ELSE \* for-else: "Skipping this page", break
                            /\ SuMarkDone(base_url, "failed")
                            /\ UNCHANGED job_urls
                  [] html_src = "404" ->
                       \* the update may raise PyMongoError, which is caught
                       /\ \E saved \in BOOLEAN :
                            job_urls' =
                              IF saved
                              THEN SetOnInsert(job_urls,
                                     {NotFoundDoc(base_url, su_page)})
                              ELSE job_urls
                       /\ SuMarkDone(base_url, "404")
                  [] html_src = "zero" ->
                       /\ SuMarkDone(base_url, "zero")
                       /\ UNCHANGED job_urls
                  [] html_src = "nolinks" ->
                       IF su_attempt < 3
                       THEN SuRetry
                       ELSE SuNextPage /\ UNCHANGED job_urls
                  [] html_src = "links" ->
                       \* hrefs found; each update may raise PyMongoError
                       /\ \E hrefs \in SUBSET JobLinks \ {{}} :
                          \E saved \in SUBSET hrefs :
                            job_urls' =
                              SetOnInsert(job_urls,
                                          {NewJobUrl(h) : h \in saved})
                       /\ SuNextPage

NextUrls ==
    \/ BuildUrl /\ UNCHANGED limVars
    \/ SuStart /\ UNCHANGED <<limVars, soVars, sjVars, dcVars, xVars>>
    \/ SuNextEntry /\ UNCHANGED <<limVars, soVars, sjVars, dcVars, xVars>>
    \/ SuAttempt /\ UNCHANGED <<limVars, soVars, sjVars, dcVars, xVars>>

(***************************************************************************)
(* scrap_urls_optimized.py: a pool of workers, one per unprocessed url,    *)
(* and the buffer of discovered job urls.  MongoDB is taken to be          *)
(* reachable (a bulk write may still fail), so that no worker raises.      *)
(***************************************************************************)
\* The hrefs a listing page can show, in page order.
Hrefs == {<<"j1">>, <<"j2">>, <<"j1", "j2">>}

Range(f) == {f[i] : i \in DOMAIN f}

\* What optimized_zenrows_request can hand back: as for scrap_urls.py, a
\* listing showing few (under 5) or many job links.
SoResponses(p) ==
    IF p < MaxPage
    THEN {"none", "404", "zero", "nolinks", "few", "many", "unparsable"}
    ELSE {"none", "404", "zero", "nolinks", "few", "unparsable"}

\* BatchURLProcessor._flush_batch: one $setOnInsert upsert per buffered
\* url; the writes of the urls in lost fail, the error is caught and the
\* buffer cleared all the same.
FlushBatch(st, lost) ==
    IF st.batch = <<>>
    THEN st
    ELSE [batch |-> <<>>,
          col   |-> SetOnInsert(st.col,
                                {NewJobUrl(h) : h \in Range(st.batch) \ lost})]

\* BatchURLProcessor.add_url
AddUrl(st, href, lost) ==
    LET appended == [st EXCEPT !.batch = Append(st.batch, href)]
    IN  IF Len(appended.batch) >= BatchSize
        THEN FlushBatch(appended, lost)
        ELSE appended

\* for href in hrefs: ... batch_processor.add_url(full_url)
RECURSIVE AddUrls(_, _, _)
AddUrls(st, hrefs, lost) ==
    IF hrefs = <<>>
    THEN st
    ELSE AddUrls(AddUrl(st, Head(hrefs), lost), Tail(hrefs), lost)

\* unprocessed = [entry for entry in targets if not entry.get("value", False)]
\* (mutant: every entry is taken)
UnprocessedAll(targets) == BaseUrls
Unprocessed(targets) == {u \in BaseUrls : ~ targets[u]}

UrlsOptAtRest ==
    /\ so_pc = "stopped"
    /\ so_targets = [u \in BaseUrls |-> FALSE]
    /\ so_wpc = [u \in BaseUrls |-> "idle"]
    /\ so_page = [u \in BaseUrls |-> 1]
    /\ so_attempt = [u \in BaseUrls |-> 0]
    /\ so_failures = [u \in BaseUrls |-> 0]
    /\ so_batch = <<>>
    /\ so_completed = 0
    /\ so_run = 0
    /\ so_requests = [u \in BaseUrls |-> 0]
    /\ so_gave_up = {}
    /\ so_done_at_start = {}
    /\ so_fetched = {}
    /\ so_late = {}
    /\ so_terminal = {}

\* no base url is followed
InitUrlsOpt ==
    /\ UrlsOptAtRest
    /\ so_found = [u \in {} |-> {}]

\* main up to the submission of the workers: the file is loaded and every
\* unprocessed entry submitted to the executor, where it waits for a thread
\* of the pool; with none, main returns at once.
SoStart ==
    /\ so_pc = "stopped"
    /\ so_run < MaxRuns
    /\ so_run' = so_run + 1
    /\ so_targets' = urls_file
    /\ so_done_at_start' = {u \in BaseUrls : urls_file[u]}
    /\ so_fetched' = {}
    /\ so_late' = {}
    /\ so_terminal' = {}
    /\ UNCHANGED so_found
    /\ so_gave_up' = {}
    /\ so_completed' = 0
    /\ so_batch' = <<>>
    /\ so_requests' = [u \in BaseUrls |-> 0]
    /\ so_wpc' = [u \in BaseUrls |->
                    IF u \in Unprocessed(urls_file) THEN "queued" ELSE "idle"]
    /\ so_pc' = IF Unprocessed(urls_file) = {} THEN "stopped" ELSE "running"
    /\ UNCHANGED <<storeVars, so_page, so_attempt, so_failures>>

\* A thread of the pool takes a submitted entry from the queue of the
\* executor and calls scrape_url_worker.  It does so too while the executor
\* shuts down: shutdown is called without cancel_futures, and the items
\* queued before it are run.
SoDispatch(u) ==
    /\ so_pc \in {"running", "exiting"}
    /\ so_wpc[u] = "queued"
    /\ Cardinality({w \in BaseUrls : so_wpc[w] = "working"}) < MaxWorkers
    /\ so_wpc' = [so_wpc EXCEPT ![u] = "working"]
    /\ so_late' = IF so_pc = "exiting" THEN so_late \cup {u} ELSE so_late
    /\ UNCHANGED <<so_terminal, so_found>>
    /\ UNCHANGED <<storeVars, so_pc, so_targets, so_page, so_attempt,
                   so_failures, so_batch, so_completed, so_run, so_requests,
                   so_gave_up, so_done_at_start, so_fetched>>

\* scrape_url_worker leaves its loop and returns True, total_jobs.
SoWorkerReturns(u) ==
    /\ so_wpc' = [so_wpc EXCEPT ![u] = "done"]
    /\ so_page' = [so_page EXCEPT ![u] = 1]
    /\ so_attempt' = [so_attempt EXCEPT ![u] = 0]
    /\ so_failures' = [so_failures EXCEPT ![u] = 0]

\* scrape_single_page returned False with a retryable error:
\* consecutive_failures += 1, and the same page is scraped again while
\* consecutive_failures < 3.
SoPageFailed(u) ==
    IF so_failures[u] + 1 < PageFailureLimit
    THEN /\ so_failures' = [so_failures EXCEPT ![u] = so_failures[u] + 1]
         /\ so_attempt' = [so_attempt EXCEPT ![u] = 0]
         /\ UNCHANGED <<so_wpc, so_page, so_gave_up>>
    ELSE /\ SoWorkerReturns(u)
         /\ so_gave_up' = so_gave_up \cup {u}

\* One pass of "for attempt in range(MAX_RETRIES)" of scrape_single_page in
\* the worker of u, with the part of scrape_url_worker that follows when
\* scrape_single_page returns.
SoAttempt(u) ==
    /\ so_pc \in {"running", "exiting"}
    /\ so_wpc[u] = "working"
    /\ so_fetched' = so_fetched \cup {u}
    /\ \E html_src \in SoResponses(so_page[u]) :
         CASE html_src \in {"none", "unparsable", "nolinks"} ->
                /\ so_requests' = [so_requests EXCEPT ![u] = so_requests[u] + 1]
                /\ IF so_attempt[u] < MAX_RETRIES - 1
                   THEN /\ so_attempt' =
                             [so_attempt EXCEPT ![u] = so_attempt[u] + 1]
                        /\ UNCHANGED <<so_wpc, so_page, so_failures,
                                       so_gave_up>>
                   ELSE SoPageFailed(u)
                /\ UNCHANGED <<job_urls, so_batch, so_terminal, so_found>>
           [] html_src \in {"404", "zero"} ->
                \* a terminal error: break
                /\ so_requests' = [so_requests EXCEPT ![u] = so_requests[u] + 1]
                /\ SoWorkerReturns(u)
                /\ so_terminal' = so_terminal \cup {u}
                /\ UNCHANGED <<job_urls, so_batch, so_gave_up, so_found>>
           [] html_src \in {"few", "many"} ->
                /\ \E hrefs \in Hrefs : \E lost \in SUBSET JobLinks :
                     LET st == AddUrls([batch |-> so_batch, col |-> job_urls],
                                       hrefs, lost)
                     IN  /\ so_batch' = st.batch
                         /\ job_urls' = st.col
                         /\ so_found' =
                              [v \in DOMAIN so_found |->
                                 IF v = u
                                 THEN so_found[v] \cup Range(hrefs)
                                 ELSE so_found[v]]
                /\ IF html_src = "few"
                   THEN \* jobs_count < 5: break
                        /\ so_requests' =
                             [so_requests EXCEPT ![u] = so_requests[u] + 1]
                        /\ SoWorkerReturns(u)
                   ELSE \* page += 1
                        /\ so_requests' = [so_requests EXCEPT ![u] = 0]
                        /\ so_page' = [so_page EXCEPT ![u] = so_page[u] + 1]
                        /\ so_attempt' = [so_attempt EXCEPT ![u] = 0]
                        /\ so_failures' = [so_failures EXCEPT ![u] = 0]
                        /\ UNCHANGED so_wpc
                /\ UNCHANGED <<so_gave_up, so_terminal>>
    /\ UNCHANGED <<urls_file, so_pc, so_targets, so_completed, so_run,
                   so_done_at_start, so_late>>

\* main, one pass of "for future in as_completed(future_to_url)": the
\* worker returned success, the entry is marked and the file saved every
\* SaveEvery completions.
SoCollect(u) ==
    /\ so_pc = "running"
    /\ so_wpc[u] = "done"
    /\ so_wpc' = [so_wpc EXCEPT ![u] = "collected"]
    /\ so_targets' = [so_targets EXCEPT ![u] = TRUE]
    /\ so_completed' = so_completed + 1
    /\ urls_file' = IF (so_completed + 1) % SaveEvery = 0
                    THEN [so_targets EXCEPT ![u] = TRUE]
                    ELSE urls_file
    /\ UNCHANGED <<job_urls, so_pc, so_page, so_attempt, so_failures,
                   so_batch, so_run, so_requests, so_gave_up,
                   so_done_at_start, so_fetched, so_late, so_terminal,
                   so_found>>

\* main after the executor: batch_processor.flush() and the final save of
\* the file.
SoFinish ==
    /\ so_pc = "running"
    /\ \A u \in BaseUrls : so_wpc[u] \in {"idle", "collected"}
    /\ \E lost \in SUBSET JobLinks :
         LET st == FlushBatch([batch |-> so_batch, col |-> job_urls], lost)
         IN  /\ so_batch' = st.batch
             /\ job_urls' = st.col
    /\ urls_file' = so_targets
    /\ so_pc' = "stopped"
    /\ so_wpc' = [u \in BaseUrls |-> "idle"]
    /\ UNCHANGED <<so_targets, so_page, so_attempt, so_failures, so_completed,
                   so_run, so_requests, so_gave_up, so_done_at_start,
                   so_fetched, so_late, so_terminal,
                   so_found>>

\* signal_handler, installed for SIGINT and run in the main thread while
\* main waits for its workers: batch_processor.flush(), then sys.exit(0).
\* SystemExit passes the "except KeyboardInterrupt" and the
\* "except Exception" of main and leaves the with block of the executor,
\* whose exit waits for the workers.
SoSignal ==
    /\ so_pc = "running"
    /\ \E lost \in SUBSET JobLinks :
         LET st == FlushBatch([batch |-> so_batch, col |-> job_urls], lost)
         IN  /\ so_batch' = st.batch
             /\ job_urls' = st.col
    /\ so_pc' = "exiting"
    /\ UNCHANGED <<urls_file, so_targets, so_wpc, so_page, so_attempt,
                   so_failures, so_completed, so_run, so_requests,
                   so_gave_up, so_done_at_start, so_fetched, so_late, so_terminal,
                   so_found>>

\* The workers have ended: SystemExit leaves main, past its final flush and
\* its final save of the file, and the process exits.
SoExit ==
    /\ so_pc = "exiting"
    /\ \A u \in BaseUrls : so_wpc[u] \notin {"queued", "working"}
    /\ so_pc' = "stopped"
    /\ so_wpc' = [u \in BaseUrls |-> "idle"]
    /\ UNCHANGED <<storeVars, so_targets, so_page, so_attempt, so_failures,
                   so_batch, so_completed, so_run, so_requests, so_gave_up,
                   so_done_at_start, so_fetched, so_late, so_terminal,
                   so_found>>

NextUrlsOpt ==
    \/ SoStart /\ UNCHANGED <<limVars, suVars, sjVars, dcVars, xVars>>
    \/ \E u \in BaseUrls :
         SoAttempt(u) /\ UNCHANGED <<limVars, suVars, sjVars, dcVars, xVars>>
    \/ \E u \in BaseUrls :
         SoCollect(u) /\ UNCHANGED <<limVars, suVars, sjVars, dcVars, xVars>>
    \/ SoFinish /\ UNCHANGED <<limVars, suVars, sjVars, dcVars, xVars>>
    \/ \E u \in BaseUrls :
         SoDispatch(u) /\ UNCHANGED <<limVars, suVars, sjVars, dcVars, xVars>>

\* scrap_urls_optimized.py run as a script, with SIGINT
NextUrlsOptSignal ==
    \/ NextUrlsOpt
    \/ SoSignal /\ UNCHANGED <<limVars, suVars, sjVars, dcVars, xVars>>
    \/ SoExit /\ UNCHANGED <<limVars, suVars, sjVars, dcVars, xVars>>

(***************************************************************************)
(* scrap_jobData_optimized.py: a pool of workers, one per unscraped job    *)
(* url.                                                                    *)
(***************************************************************************)
\* What optimized_zenrows_request and extract_job_data make of a job page:
\* None after a 429, None after another failure, the 404 page, a page that
\* yields no more than url, error and scraped_at, or a full job.
SjResponses == {"429", "none", "404", "thin", "job"}

\* job_urls_col.find({"scraped": {"$ne": True}}): the urls of the documents
\* whose field "scraped" is not True, the documents without the field
\* among them.
WorkSet(col) == {d.url : d \in {x \in col : ~ x.scraped}}
\* the job links of the work-set, one worker each
Unscraped(col) == {url[1] : url \in WorkSet(col)} \cap JobKeys

\* update_one({"url": url}, {"$set": job_data}, upsert=True): the fields of
\* job_data are set, the other fields of a stored document stay.
UpsertJobData(col, doc) ==
    IF \E d \in col : d.url = doc.url
    THEN {IF d.url = doc.url
          THEN [url      |-> d.url,
                error    |-> IF doc.error = "none" THEN d.error ELSE doc.error,
                has_data |-> d.has_data \/ doc.has_data]
          ELSE d : d \in col}
    ELSE col \cup {doc}

\* the second update_one, were it to leave the job url as it is
LeaveUnscraped(col, url) == col

\* update_one({"url": url}, {"$set": {"scraped": True, ...}})
MarkScraped(col, url) ==
    {IF d.url = url THEN [d EXCEPT !.scraped = TRUE, !.has_scraped = TRUE]
                    ELSE d : d \in col}

InitJobsOpt ==
    /\ job_data = {}
    /\ sj_pc = "stopped"
    /\ sj_wpc = [j \in JobKeys |-> "idle"]
    /\ sj_attempt = [j \in JobKeys |-> 0]
    /\ sj_success = [j \in JobKeys |-> FALSE]
    /\ sj_run = 0
    /\ sj_requests = [j \in JobKeys |-> 0]
    /\ sj_only429 = [j \in JobKeys |-> FALSE]
    /\ sj_skipped = {}

\* main up to the submission of the batch: the unscraped job urls are read
\* and submitted; with none, main returns at once.
SjStart ==
    /\ sj_pc = "stopped"
    /\ sj_run < MaxRuns
    /\ sj_run' = sj_run + 1
    /\ sj_wpc' = [j \in JobKeys |->
                    IF j \in Unscraped(job_urls) THEN "queued" ELSE "idle"]
    /\ sj_pc' = IF Unscraped(job_urls) = {} THEN "stopped" ELSE "running"
    /\ sj_requests' = [j \in JobKeys |-> 0]
    /\ sj_skipped' = sj_skipped \cup
           ((JobKeys \cap {d.url[1] : d \in job_urls}) \ Unscraped(job_urls))
    /\ UNCHANGED <<storeVars, job_data, sj_attempt, sj_success, sj_only429>>

\* scrape_job_worker up to its first request, once a thread of the pool is
\* free: a job with a document in job_data is "Already scraped".
SjBegin(j) ==
    /\ sj_pc = "running"
    /\ sj_wpc[j] = "queued"
    /\ Cardinality({k \in JobKeys : sj_wpc[k] = "scraping"}) < JobWorkers
    /\ IF \E d \in job_data : d.url = JobUrl(j)
       THEN /\ sj_wpc' = [sj_wpc EXCEPT ![j] = "done"]
            /\ sj_success' = [sj_success EXCEPT ![j] = TRUE]
            /\ UNCHANGED sj_only429
       ELSE /\ sj_wpc' = [sj_wpc EXCEPT ![j] = "scraping"]
            /\ sj_only429' = [sj_only429 EXCEPT ![j] = TRUE]
            /\ UNCHANGED sj_success
    /\ UNCHANGED <<storeVars, job_data, sj_pc, sj_attempt, sj_run,
                   sj_requests, sj_skipped>>

\* The end of scrape_job_worker: job_data is upserted, then the job url
\* marked scraped, whatever job_data holds; either update may raise, which
\* ends the worker with "Database error".
SjSave(j, doc) ==
    /\ \E saved \in 0..2 :
         /\ job_data' = IF saved >= 1 THEN UpsertJobData(job_data, doc)
                                      ELSE job_data
         /\ job_urls' = IF saved = 2 THEN MarkScraped(job_urls, JobUrl(j))
                                     ELSE job_urls
         /\ sj_success' = [sj_success EXCEPT
                             ![j] = saved = 2 /\ doc.error = "none"]
    /\ sj_wpc' = [sj_wpc EXCEPT ![j] = "done"]
    /\ sj_attempt' = [sj_attempt EXCEPT ![j] = 0]

\* One pass of "for attempt in range(MAX_RETRIES)" of scrape_job_worker,
\* with the save that follows the loop.
SjAttempt(j) ==
    /\ sj_pc = "running"
    /\ sj_wpc[j] = "scraping"
    /\ sj_requests' = [sj_requests EXCEPT ![j] = sj_requests[j] + 1]
    /\ \E html_content \in SjResponses :
         /\ sj_only429' = [sj_only429 EXCEPT
                             ![j] = sj_only429[j] /\ html_content = "429"]
         /\ CASE html_content \in {"429", "none", "thin"} ->
                   IF sj_attempt[j] < MAX_RETRIES - 1
                   THEN /\ sj_attempt' =
                             [sj_attempt EXCEPT ![j] = sj_attempt[j] + 1]
                        /\ UNCHANGED <<job_urls, job_data, sj_wpc, sj_success>>
                   ELSE \* for-else
                        SjSave(j, [url |-> JobUrl(j),
                                   error |-> "Max retries exceeded",
                                   has_data |-> FALSE])
              [] html_content = "404" ->
                   SjSave(j, [url |-> JobUrl(j), error |-> "404 Not Found",
                              has_data |-> FALSE])
              [] html_content = "job" ->
                   SjSave(j, [url |-> JobUrl(j), error |-> "none",
                              has_data |-> TRUE])
    /\ UNCHANGED <<urls_file, sj_pc, sj_run, sj_skipped>>

\* main after the batch: every future has completed.
SjFinish ==
    /\ sj_pc = "running"
    /\ \A j \in JobKeys : sj_wpc[j] \in {"idle", "done"}
    /\ sj_pc' = "stopped"
    /\ sj_wpc' = [j \in JobKeys |-> "idle"]
    /\ UNCHANGED <<storeVars, job_data, sj_attempt, sj_success, sj_run,
                   sj_requests, sj_only429, sj_skipped>>

NextJobsOpt ==
    \/ SjStart /\ UNCHANGED <<limVars, suVars, soVars, dcVars, xVars>>
    \/ \E j \in JobKeys :
         SjBegin(j) /\ UNCHANGED <<limVars, suVars, soVars, dcVars, xVars>>
    \/ \E j \in JobKeys :
         SjAttempt(j) /\ UNCHANGED <<limVars, suVars, soVars, dcVars, xVars>>
    \/ SjFinish /\ UNCHANGED <<limVars, suVars, soVars, dcVars, xVars>>

(***************************************************************************)
(* data_classification.py: process_jobs, process_batch, classify_job_post  *)
(* under its retry decorator, save_to_mongo and upsert_to_elasticsearch.   *)
(***************************************************************************)
\* stop=stop_after_attempt(3)
STOP_AFTER_ATTEMPT == 3

\* raw_output, the text of the completion: a JSON text with what the model
\* wrote before and after it.  The JSON text is an object with every region
\* of the prompt ("full"), an object without prospecting_intel ("partial"),
\* a JSON value that is no object and holds no brace ("array"), braces
\* around text that is not JSON ("broken"), or absent ("none"); what
\* surrounds it is nothing, prose, or prose that holds braces.
Surroundings == {"", "text", "braces"}
JsonTexts == {"full", "partial", "array", "broken", "none"}
RawOutputs == [before : Surroundings, json : JsonTexts, after : Surroundings]

\* json.loads(raw_output): the whole text has to be one JSON value
JsonLoads(raw_output) ==
    IF /\ raw_output.before = ""
       /\ raw_output.after = ""
       /\ raw_output.json \in {"full", "partial", "array"}
    THEN raw_output.json
    ELSE "JSONDecodeError"

\* re.search(r'\{.*\}', raw_output, re.DOTALL) and json.loads of the match:
\* the match runs from the first "{" of the text to its last "}".
RegexRecover(raw_output) ==
    IF raw_output.before = "braces" \/ raw_output.after = "braces"
    THEN "ValueError"
    ELSE IF raw_output.json \in {"full", "partial"}
         THEN raw_output.json
         ELSE "ValueError"

\* The parsing of classify_job_post: the direct parse, then the recovery.
\* The value parsed is returned as it is.
ParseOutput(raw_output) ==
    IF JsonLoads(raw_output) # "JSONDecodeError"
    THEN JsonLoads(raw_output)
    ELSE RegexRecover(raw_output)

\* isinstance(result, dict)
IsDict(result) == result \in {"full", "partial"}

\* asyncio.gather(*tasks) without return_exceptions: the first exception of
\* a task is raised in process_batch.
GatherRaisesTaskException(results) == "exception" \in results

\* asyncio.gather(*tasks, return_exceptions=True): an exception of a task is
\* a result of the list, it is not raised in process_batch.
GatherRaises(results) == FALSE

\* classified_urls: the source_url of every document of classified_jobs
ClassifiedUrls(col) == {col[i].source_url : i \in DOMAIN col}

\* source_col.find({"source_url": {"$nin": list(classified_urls)}}), or
\* find({}) when classified_urls is empty
FindUnclassified(src, col) ==
    LET Unclassified(d) == src[d] \notin ClassifiedUrls(col)
    IN  SelectSeq(Docs, Unclassified)

FirstN(seq, n) == SubSeq(seq, 1, IF Len(seq) < n THEN Len(seq) ELSE n)
DropN(seq, n) == SubSeq(seq, (IF Len(seq) < n THEN Len(seq) ELSE n) + 1,
                        Len(seq))

\* dest_col.insert_one(document)
InsertOne(col, document) == Append(col, document)

ClassifyAtRest ==
    /\ dc_pc = "stopped"
    /\ dc_todo = <<>>
    /\ dc_batch = <<>>
    /\ dc_results = [d \in DocIds |-> "none"]
    /\ dc_attempts = [d \in DocIds |-> 0]
    /\ dc_i = 1
    /\ dc_run = 0
    /\ dc_submitted = {}
    /\ dc_selected = {}
    /\ dc_handled = {}
    /\ dc_failed = {}
    /\ dc_parse_failed = {}
    /\ dc_reasked = {}

InitClassify ==
    /\ classified_jobs = <<>>
    /\ es_jobs = [c \in Companies \ {""} |-> 0]
    /\ ClassifyAtRest

\* The first batch of the cursor is handed to process_batch: one task of
\* classify_job_post per job.
DcTakeBatch(todo) ==
    /\ dc_batch' = FirstN(todo, ClassifyBatch)
    /\ dc_todo' = DropN(todo, ClassifyBatch)
    /\ dc_results' = [d \in DocIds |->
                        IF d \in Range(FirstN(todo, ClassifyBatch))
                        THEN "pending" ELSE "none"]
    /\ dc_attempts' = [d \in DocIds |-> 0]
    /\ dc_i' = 1
    /\ dc_pc' = "classifying"
    /\ dc_parse_failed' = {}
    /\ dc_reasked' = {}

\* process_jobs up to its first batch; with nothing to classify it returns.
DcStart ==
    /\ dc_pc = "stopped"
    /\ dc_run < MaxRuns
    /\ dc_run' = dc_run + 1
    /\ LET todo == FindUnclassified(jobs, classified_jobs)
       IN  /\ dc_submitted' = {jobs[d] : d \in Range(todo)}
           /\ dc_selected' = Range(todo)
           /\ dc_handled' = {}
           /\ dc_failed' = {}
           /\ IF todo = <<>>
              THEN UNCHANGED <<dc_pc, dc_todo, dc_batch, dc_results,
                               dc_attempts, dc_i, dc_parse_failed,
                               dc_reasked>>
              ELSE DcTakeBatch(todo)
    /\ UNCHANGED <<jobs, classified_jobs, es_jobs>>

\* The outcome of an attempt that raised, under the retry decorator: the
\* call is made again until the attempt of number STOP_AFTER_ATTEMPT, whose
\* exception is the result of the task.
Retried(attempt) ==
    IF attempt < STOP_AFTER_ATTEMPT THEN "pending" ELSE "exception"

\* classify_job_post, were it to save what it parsed before returning
DcClassifySaving(d) ==
    /\ dc_pc = "classifying"
    /\ dc_results[d] = "pending"
    /\ dc_attempts' = [dc_attempts EXCEPT ![d] = dc_attempts[d] + 1]
    /\ dc_results' = [dc_results EXCEPT ![d] = "full"]
    /\ classified_jobs' =
          InsertOne(classified_jobs,
                    [source_url |-> jobs[d], regions |-> "full"])
    /\ dc_parse_failed' = dc_parse_failed \ {d}
    /\ UNCHANGED <<jobs, es_jobs, dc_pc, dc_todo, dc_batch, dc_i, dc_run,
                   dc_submitted, dc_selected, dc_handled, dc_failed,
                   dc_reasked>>

\* One attempt of classify_job_post for a job of the batch, under
\* @retry(stop=stop_after_attempt(3)): the request is sent; the API call
\* raises, or its output is parsed.  The decorator is around the whole
\* function, so the ValueError of the parsing is retried like the error of
\* the API call.
DcClassify(d) ==
    /\ dc_pc = "classifying"
    /\ dc_results[d] = "pending"
    /\ dc_attempts' = [dc_attempts EXCEPT ![d] = dc_attempts[d] + 1]
    /\ dc_reasked' = IF d \in dc_parse_failed
                     THEN dc_reasked \cup {d} ELSE dc_reasked
    /\ \/ /\ dc_results' =
                [dc_results EXCEPT ![d] = Retried(dc_attempts[d] + 1)]
          /\ dc_parse_failed' =
                IF Retried(dc_attempts[d] + 1) = "pending"
                THEN dc_parse_failed ELSE dc_parse_failed \ {d}
       \/ \E raw_output \in RawOutputs :
            IF ParseOutput(raw_output) = "ValueError"
            THEN /\ dc_results' =
                      [dc_results EXCEPT ![d] = Retried(dc_attempts[d] + 1)]
                 /\ dc_parse_failed' =
                      IF Retried(dc_attempts[d] + 1) = "pending"
                      THEN dc_parse_failed \cup {d}
                      ELSE dc_parse_failed \ {d}
            ELSE /\ dc_results' =
                      [dc_results EXCEPT ![d] = ParseOutput(raw_output)]
                 /\ dc_parse_failed' = dc_parse_failed \ {d}
    /\ UNCHANGED <<jobs, classified_jobs, es_jobs, dc_pc, dc_todo, dc_batch,
                   dc_i, dc_run, dc_submitted, dc_selected, dc_handled,
                   dc_failed>>

\* asyncio.gather has returned: process_batch turns to the results.  Were
\* an exception raised out of gather, it would leave process_batch,
\* process_jobs and asyncio.run, and end the run.
DcGathered ==
    /\ dc_pc = "classifying"
    /\ \A d \in Range(dc_batch) : dc_results[d] # "pending"
    /\ IF GatherRaises({dc_results[d] : d \in Range(dc_batch)})
       THEN /\ dc_pc' = "stopped"
            /\ dc_todo' = <<>>
            /\ dc_batch' = <<>>
            /\ dc_results' = [x \in DocIds |-> "none"]
            /\ dc_attempts' = [x \in DocIds |-> 0]
       ELSE /\ dc_pc' = "saving"
            /\ UNCHANGED <<dc_todo, dc_batch, dc_results, dc_attempts>>
    /\ UNCHANGED <<jobs, classified_jobs, es_jobs, dc_i, dc_run, dcLogs>>

\* One pass of "for i, result in enumerate(results)" of process_batch: a
\* dict is saved as it was parsed (insert_one may raise, which save_to_mongo
\* turns into False) and then indexed under its company (an error is
\* logged); any other result is printed.  After the last result
\* process_jobs goes to its next batch or returns.
DcHandleResult ==
    /\ dc_pc = "saving"
    /\ LET d == dc_batch[dc_i]
       IN  /\ dc_handled' = dc_handled \cup {d}
           /\ IF IsDict(dc_results[d])
              THEN \E saved \in BOOLEAN :
                     IF saved
                     THEN /\ classified_jobs' =
                               InsertOne(classified_jobs,
                                         [source_url |-> jobs[d],
                                          regions |-> dc_results[d]])
                          /\ \E company_name \in Companies,
                                indexed \in BOOLEAN :
                               es_jobs' =
                                 IF company_name # "" /\ indexed
                                 THEN [es_jobs EXCEPT
                                         ![company_name] = @ + 1]
                                 ELSE es_jobs
                          /\ UNCHANGED dc_failed
                     ELSE /\ dc_failed' = dc_failed \cup {d}
                          /\ UNCHANGED <<classified_jobs, es_jobs>>
              ELSE /\ dc_failed' = dc_failed \cup {d}
                   /\ UNCHANGED <<classified_jobs, es_jobs>>
    /\ IF dc_i < Len(dc_batch)
       THEN /\ dc_i' = dc_i + 1
            /\ UNCHANGED <<dc_pc, dc_todo, dc_batch, dc_results, dc_attempts,
                           dc_parse_failed, dc_reasked>>
       ELSE IF dc_todo # <<>>
            THEN DcTakeBatch(dc_todo)
            ELSE /\ dc_pc' = "stopped"
                 /\ dc_batch' = <<>>
                 /\ dc_i' = 1
                 /\ dc_results' = [x \in DocIds |-> "none"]
                 /\ dc_attempts' = [x \in DocIds |-> 0]
                 /\ dc_parse_failed' = {}
                 /\ dc_reasked' = {}
                 /\ UNCHANGED dc_todo
    /\ UNCHANGED <<jobs, dc_run, dc_submitted, dc_selected>>

NextClassify ==
    \/ DcStart /\ UNCHANGED <<limVars, storeVars, suVars, soVars, sjVars, xVars>>
    \/ \E d \in DocIds :
         DcClassify(d)
           /\ UNCHANGED <<limVars, storeVars, suVars, soVars, sjVars, xVars>>
    \/ DcGathered /\ UNCHANGED <<limVars, storeVars, suVars, soVars, sjVars, xVars>>
    \/ DcHandleResult
         /\ UNCHANGED <<limVars, storeVars, suVars, soVars, sjVars, xVars>>

(***************************************************************************)
(* data_classification_optimized.py: main and classify_job_worker.  main   *)
(* selects the unclassified jobs as data_classification.py does and hands  *)
(* each to a worker of the pool (MAX_WORKERS = 4 threads, more than the    *)
(* jobs of the model); a worker checks classified_jobs, classifies and     *)
(* inserts.                                                                *)
(***************************************************************************)
\* What classify_job_post gives a worker, its retries done: a parsed value
\* or the exception of its last attempt.
Classifications == {"full", "partial", "array", "exception"}

InitClassifyOpt ==
    /\ co_pc = "stopped"
    /\ co_wpc = [d \in DocIds |-> "none"]
    /\ co_classification = [d \in DocIds |-> "none"]
    /\ co_message = [d \in DocIds |-> "none"]
    /\ co_run = 0

\* main up to the submission of the batch (batch_size = 100, more than the
\* jobs of the model); with nothing to classify it returns.
CoStart ==
    /\ co_pc = "stopped"
    /\ co_run < MaxRuns
    /\ co_run' = co_run + 1
    /\ LET todo == FindUnclassified(jobs, classified_jobs)
       IN  /\ co_pc' = IF todo = <<>> THEN "stopped" ELSE "running"
           /\ co_wpc' = [d \in DocIds |->
                           IF d \in Range(todo) THEN "submitted" ELSE "none"]
    /\ co_classification' = [d \in DocIds |-> "none"]
    /\ co_message' = [d \in DocIds |-> "none"]
    /\ UNCHANGED <<jobs, classified_jobs>>

\* classify_job_worker, its check: dest_col.find_one({"source_url": ...});
\* an error of the connection is the worker's "Worker error".
CoCheck(d) ==
    /\ co_wpc[d] = "submitted"
    /\ \E reachable \in BOOLEAN :
         IF ~reachable
         THEN /\ co_wpc' = [co_wpc EXCEPT ![d] = "done"]
              /\ co_message' = [co_message EXCEPT ![d] = "Worker error"]
         ELSE IF jobs[d] \in ClassifiedUrls(classified_jobs)
              THEN /\ co_wpc' = [co_wpc EXCEPT ![d] = "done"]
                   /\ co_message' =
                        [co_message EXCEPT ![d] = "Already classified"]
              ELSE /\ co_wpc' = [co_wpc EXCEPT ![d] = "classify"]
                   /\ UNCHANGED co_message
    /\ UNCHANGED <<jobs, classified_jobs, co_pc, co_classification, co_run>>

\* classify_job_worker, loop.run_until_complete(classify_job_post(job_doc))
CoClassify(d) ==
    /\ co_wpc[d] = "classify"
    /\ \E classification \in Classifications :
         /\ co_classification' =
              [co_classification EXCEPT ![d] = classification]
         /\ IF IsDict(classification)
            THEN /\ co_wpc' = [co_wpc EXCEPT ![d] = "save"]
                 /\ UNCHANGED co_message
            ELSE /\ co_wpc' = [co_wpc EXCEPT ![d] = "done"]
                 /\ co_message' = [co_message EXCEPT
                                     ![d] = IF classification = "exception"
                                            THEN "Worker error"
                                            ELSE "Classification failed"]
    /\ UNCHANGED <<jobs, classified_jobs, co_pc, co_run>>

\* classify_job_worker, save_to_mongo(classification, source_url)
CoSave(d) ==
    /\ co_wpc[d] = "save"
    /\ co_wpc' = [co_wpc EXCEPT ![d] = "done"]
    /\ \E saved \in BOOLEAN :
         IF saved
         THEN /\ classified_jobs' =
                   InsertOne(classified_jobs,
                             [source_url |-> jobs[d],
                              regions |-> co_classification[d]])
              /\ co_message' = [co_message EXCEPT ![d] = "Success"]
         ELSE /\ co_message' =
                   [co_message EXCEPT ![d] = "MongoDB save failed"]
              /\ UNCHANGED classified_jobs
    /\ UNCHANGED <<jobs, co_pc, co_classification, co_run>>

\* every future of the batch has completed: main leaves the executor
CoFinish ==
    /\ co_pc = "running"
    /\ \A d \in DocIds : co_wpc[d] \in {"none", "done"}
    /\ co_pc' = "stopped"
    /\ co_wpc' = [d \in DocIds |-> "none"]
    /\ co_classification' = [d \in DocIds |-> "none"]
    /\ co_message' = [d \in DocIds |-> "none"]
    /\ UNCHANGED <<jobs, classified_jobs, co_run>>

\* what the actions of this stage leave alone
CoOthers == <<limVars, storeVars, suVars, soVars, sjVars, es_jobs, dc_pc,
              dc_todo, dc_batch, dc_results, dc_attempts, dc_i, dc_run,
              dcLogs, ctlVars, prVars, paVars, ixVars, exVars,
      plVars, blVars>>

NextClassifyOpt ==
    \/ CoStart /\ UNCHANGED CoOthers
    \/ \E d \in DocIds : CoCheck(d) /\ UNCHANGED CoOthers
    \/ \E d \in DocIds : CoClassify(d) /\ UNCHANGED CoOthers
    \/ \E d \in DocIds : CoSave(d) /\ UNCHANGED CoOthers
    \/ CoFinish /\ UNCHANGED CoOthers

(***************************************************************************)
(* The controllers: main.py run_pipeline with step "all",                  *)
(* main_optimized.py run_full_optimized_pipeline and main_linux_amd.py     *)
(* run_complete_pipeline.  A stage is one run of its script, of which the  *)
(* controller sees the exit status or, in main.py, only whether the import *)
(* of the module raised.                                                   *)
(***************************************************************************)
Controllers == {"main", "main_optimized", "main_linux_amd"}

Stages ==
    <<"generate_urls", "scrape_urls", "scrape_jobs", "classify", "index">>

\* main.py has no stage of its own for the indexing
StagesOf(controller) ==
    IF controller = "main" THEN SubSeq(Stages, 1, 4) ELSE Stages

Credentials == {"MONGO_URI", "GROQ_API_KEY", "ZENROWS_API_KEY"}

\* "config" stands for config/job_Type.json and config/states.json
FileNames == {"config", "wellfound_urls.json", "data/url.json",
              "data/data.json", "data/classified_data.json"}

\* The file a stage leaves behind, which main_linux_amd.py looks for.
Artifact(stage) ==
    CASE stage = "generate_urls" -> "wellfound_urls.json"
      [] stage = "scrape_urls" -> "data/url.json"
      [] stage = "scrape_jobs" -> "data/data.json"
      [] stage = "classify" -> "data/classified_data.json"
      [] OTHER -> "none"

\* check_file_exists: path.exists()
CheckFileExists(filepath) == files[filepath] # "missing"

\* What a run of a script ends in: its exit status, whether the import of
\* the module raised (main.py imports before it runs), whether it found a
\* credential or its input file missing, whether it dispatched work, and
\* the files and search urls as it leaves them.
Outcome(exit, import_raised, missing, dispatch) ==
    [exit |-> exit, import_raised |-> import_raised, missing |-> missing,
     dispatch |-> dispatch, files |-> files, wf_shape |-> wf_shape,
     not_done |-> la_not_done, attempted |-> la_attempted]

\* python build_url.py: reads the configuration and writes the list of
\* entries, each with value false.
RunBuildUrl ==
    IF files["config"] = "missing"
    THEN {Outcome(1, FALSE, TRUE, FALSE)}
    ELSE {[Outcome(0, FALSE, FALSE, FALSE) EXCEPT
             !.files = [files EXCEPT !["wellfound_urls.json"] = "data"],
             !.wf_shape = "list"]}

\* What a script that iterates over the entries of wellfound_urls.json ends
\* in once it has loaded the file: every entry may be done already, work is
\* dispatched, and the run may end in an error; entry.get fails when the
\* file holds an object.
RunOverEntries ==
    IF wf_shape = "dict"
    THEN {Outcome(1, FALSE, FALSE, FALSE)}
    ELSE {Outcome(0, FALSE, FALSE, FALSE), Outcome(0, FALSE, FALSE, TRUE),
          Outcome(1, FALSE, FALSE, TRUE)}

\* main.py scrape_urls: import scrap_urls (the module raises without
\* ZENROWS_API_KEY, and its create_index may raise), then
\* os.system("python scrap_urls.py"), whose __main__ exits with 1 when the
\* url file is missing.
RunScrapUrls ==
    IF "ZENROWS_API_KEY" \notin env_creds
    THEN {Outcome(1, TRUE, TRUE, FALSE)}
    ELSE {Outcome(1, TRUE, FALSE, FALSE)}
         \cup (IF files["wellfound_urls.json"] = "missing"
               THEN {Outcome(1, FALSE, TRUE, FALSE)}
               ELSE RunOverEntries)

\* main.py scrape_jobs: import scrap_jobData raises, RuntimeError without
\* ZENROWS_API_KEY and else NameError at the "if not MONGO_URI:" of module
\* level, MONGO_URI being assigned under the __main__ guard only.
RunScrapJobData ==
    IF "ZENROWS_API_KEY" \notin env_creds
    THEN {Outcome(1, TRUE, TRUE, FALSE)}
    ELSE {Outcome(1, TRUE, FALSE, FALSE)}

\* main.py classify_jobs: process_jobs is awaited in the process of the
\* controller; an exception makes the stage return False.
RunProcessJobs ==
    {Outcome(0, FALSE, FALSE, dispatch) : dispatch \in BOOLEAN}
    \cup {Outcome(1, TRUE, FALSE, dispatch) : dispatch \in BOOLEAN}

\* python scrap_urls_optimized.py: the module raises without
\* ZENROWS_API_KEY and exits with 1 without MONGO_URI; main prints and
\* returns when the url file is missing.
RunScrapUrlsOptimized ==
    IF {"ZENROWS_API_KEY", "MONGO_URI"} \subseteq env_creds
    THEN IF files["wellfound_urls.json"] = "missing"
         THEN {Outcome(0, FALSE, TRUE, FALSE)}
         ELSE RunOverEntries
    ELSE {Outcome(1, FALSE, TRUE, FALSE)}

\* python scrap_urls_linux_amd.py: main returns without ZENROWS_API_KEY;
\* load_search_urls gives [] when the file is missing or data.get raises
\* (the file holds a list), and run_scraping returns; else every search url
\* is requested, the urls of those that answered are saved to data/url.json
\* and the script ends, or it ends in an error before the save.
RunScrapUrlsLinuxAmd ==
    IF "ZENROWS_API_KEY" \notin env_creds
    THEN {Outcome(0, FALSE, TRUE, FALSE)}
    ELSE IF files["wellfound_urls.json"] = "missing"
         THEN {Outcome(0, FALSE, TRUE, FALSE)}
         ELSE IF wf_shape = "list"
              THEN {Outcome(0, FALSE, FALSE, FALSE)}
              ELSE {[Outcome(0, FALSE, FALSE, TRUE) EXCEPT
                       !.attempted = BaseUrls,
                       !.not_done = la_not_done \ answered,
                       !.files = [files EXCEPT
                                    !["data/url.json"] =
                                       IF answered = {}
                                       THEN "empty" ELSE "data"]]
                      : answered \in SUBSET BaseUrls}
                   \cup {[Outcome(1, FALSE, FALSE, TRUE) EXCEPT
                            !.attempted = BaseUrls]}

\* The run of a script of a later stage, of which the controller uses the
\* exit status and main_linux_amd.py the artifact: it ends with or without
\* error, with or without work dispatched, the artifact written or not.
RunLaterStage(stage) ==
    {Outcome(1, FALSE, FALSE, dispatch) : dispatch \in BOOLEAN}
    \cup {Outcome(0, FALSE, FALSE, dispatch) : dispatch \in BOOLEAN}
    \cup (IF Artifact(stage) = "none"
          THEN {}
          ELSE {[Outcome(0, FALSE, FALSE, TRUE) EXCEPT
                   !.files = [files EXCEPT ![Artifact(stage)] = "data"]]})

ScriptOutcomes(controller, stage) ==
    CASE stage = "generate_urls" -> RunBuildUrl
      [] stage = "scrape_urls" /\ controller = "main" -> RunScrapUrls
      [] stage = "scrape_urls" /\ controller = "main_optimized" ->
           RunScrapUrlsOptimized
      [] stage = "scrape_urls" /\ controller = "main_linux_amd" ->
           RunScrapUrlsLinuxAmd
      [] stage = "scrape_jobs" /\ controller = "main" -> RunScrapJobData
      [] stage = "classify" /\ controller = "main" -> RunProcessJobs
      [] OTHER -> RunLaterStage(stage)

\* the script failed: it did not run to its end with status 0
Failed(outcome) == outcome.import_raised \/ outcome.exit # 0

\* What the stage method returns to the controller.  main.py calls
\* os.system and drops its return value: only an exception of the import
\* makes the method return False.  The others compare returncode with 0.
Reported(controller, outcome) ==
    IF controller = "main"
    THEN ~outcome.import_raised
    ELSE outcome.exit = 0

\* main_linux_amd.py runs a stage when its artifact does not exist (the
\* indexing always); the other controllers run every stage.
Skips(controller, stage) ==
    /\ controller = "main_linux_amd"
    /\ Artifact(stage) # "none"
    /\ CheckFileExists(Artifact(stage))

\* the declared artifact of the stage holds data
HasData(stage) ==
    Artifact(stage) # "none" /\ files[Artifact(stage)] = "data"

Position(stage) == CHOOSE i \in DOMAIN Stages : Stages[i] = stage

ControllersAtRest ==
    /\ ctl_step = "all"
    /\ ctl_status = <<>>
    /\ ctl_pc = "returned"
    /\ ctl_result = "none"
    /\ ctl_run = 0
    /\ ctl_started = <<>>
    /\ ctl_failed = {}
    /\ ctl_skipped = {}
    /\ ctl_with_data = {}
    /\ ctl_missing = FALSE
    /\ ctl_after_missing = {}
    /\ ctl_late_dispatch = FALSE
    /\ la_not_done = BaseUrls
    /\ la_attempted = {}
    /\ la_left = {}

InitControllers ==
    /\ ControllersAtRest
    /\ ctl_controller = "main"
    /\ env_creds = Credentials
    /\ wf_shape = "list"
    /\ files = [f \in FileNames |-> "missing"]

\* check_environment of main.py and verify_environment of
\* main_linux_amd.py: the variables the controller requires (ES_HOST and
\* ES_PASS, which the second requires too, are taken to be set)
RequiredVars(controller) ==
    CASE controller = "main" -> {"MONGO_URI", "GROQ_API_KEY"}
      [] controller = "main_linux_amd" ->
           {"ZENROWS_API_KEY", "GROQ_API_KEY", "MONGO_URI"}
      [] OTHER -> {}

\* --step of main.py and main_optimized.py: the whole pipeline or one stage;
\* main_linux_amd.py has the whole pipeline only.
StepsOf(controller) ==
    IF controller = "main_linux_amd"
    THEN {"all"}
    ELSE {"all"} \cup Range(StagesOf(controller))

\* The controller up to its first stage: main.py checks its variables and
\* connects to MongoDB, main_optimized.py connects, main_linux_amd.py
\* checks its variables when the pipeline object is built.
CtlStart ==
    /\ ctl_pc = "returned"
    /\ ctl_run < MaxRuns
    /\ ctl_step' \in StepsOf(ctl_controller)
    /\ ctl_run' = ctl_run + 1
    /\ ctl_started' = <<>>
    /\ ctl_failed' = {}
    /\ ctl_skipped' = {}
    /\ ctl_with_data' = {}
    /\ ctl_after_missing' = {}
    /\ ctl_late_dispatch' = FALSE
    /\ la_attempted' = {}
    /\ la_left' = IF ctl_run = 0 THEN {} ELSE la_not_done
    /\ IF ~(RequiredVars(ctl_controller) \subseteq env_creds)
       THEN /\ ctl_missing' = TRUE
            /\ ctl_pc' = "returned"
            /\ ctl_result' = "False"
       ELSE /\ ctl_missing' = FALSE
            /\ \E connected \in BOOLEAN :
                 IF connected \/ ctl_controller = "main_linux_amd"
                 THEN /\ ctl_pc' = IF ctl_step' = "all"
                                     THEN Stages[1] ELSE ctl_step'
                      /\ ctl_result' = "none"
                 ELSE /\ ctl_pc' = "returned"
                      /\ ctl_result' = "False"
    /\ UNCHANGED <<ctl_controller, ctl_status, env_creds, files, wf_shape,
                   la_not_done>>

\* (mutant: the stages after the one of --step are run too)
CtlGoOnToTheLast(stage) ==
    IF Position(stage) < Len(StagesOf(ctl_controller))
    THEN /\ ctl_pc' = Stages[Position(stage) + 1]
         /\ ctl_result' = "none"
    ELSE /\ ctl_pc' = "returned"
         /\ ctl_result' = "True"

\* The controller goes on after a stage: to the next one, or it returns
\* True after the last and after the one stage of --step.
CtlGoOn(stage) ==
    IF ctl_step = "all" /\ Position(stage) < Len(StagesOf(ctl_controller))
    THEN /\ ctl_pc' = Stages[Position(stage) + 1]
         /\ ctl_result' = "none"
    ELSE /\ ctl_pc' = "returned"
         /\ ctl_result' = "True"

\* main_linux_amd.py finds the artifact of the stage and skips the stage.
CtlSkipStage ==
    /\ ctl_pc # "returned"
    /\ Skips(ctl_controller, ctl_pc)
    /\ ctl_skipped' = ctl_skipped \cup {ctl_pc}
    /\ ctl_with_data' = IF HasData(ctl_pc)
                        THEN ctl_with_data \cup {ctl_pc} ELSE ctl_with_data
    /\ CtlGoOn(ctl_pc)
    /\ UNCHANGED <<ctl_controller, ctl_step, ctl_status, env_creds, files,
                   wf_shape, ctl_run, ctl_started, ctl_failed, ctl_missing,
                   ctl_after_missing, ctl_late_dispatch, la_not_done,
                   la_attempted, la_left>>

\* The controller runs the script of the stage and, by what the stage
\* method returns, goes on or returns False (main_linux_amd.py clears
\* pipeline_success, which keeps every later stage from running).
CtlRunStage ==
    /\ ctl_pc # "returned"
    /\ ~Skips(ctl_controller, ctl_pc)
    /\ ctl_started' = Append(ctl_started, ctl_pc)
    /\ ctl_with_data' = IF HasData(ctl_pc)
                        THEN ctl_with_data \cup {ctl_pc} ELSE ctl_with_data
    /\ ctl_after_missing' = IF ctl_missing
                            THEN ctl_after_missing \cup {ctl_pc}
                            ELSE ctl_after_missing
    /\ \E outcome \in ScriptOutcomes(ctl_controller, ctl_pc) :
         /\ files' = outcome.files
         /\ wf_shape' = outcome.wf_shape
         /\ la_not_done' = outcome.not_done
         /\ la_attempted' = outcome.attempted
         /\ ctl_failed' = IF Failed(outcome)
                          THEN ctl_failed \cup {ctl_pc} ELSE ctl_failed
         /\ ctl_missing' = (ctl_missing \/ outcome.missing)
         /\ ctl_late_dispatch' =
              (ctl_late_dispatch \/ (ctl_missing /\ outcome.dispatch))
         /\ IF Reported(ctl_controller, outcome)
            THEN CtlGoOn(ctl_pc)
            ELSE /\ ctl_pc' = "returned"
                 /\ ctl_result' = "False"
    /\ UNCHANGED <<ctl_controller, ctl_step, ctl_status, env_creds, ctl_run,
                   ctl_skipped, la_left>>

\* get_pipeline_status of main.py: five count_documents
GetPipelineStatus ==
    [total_urls      |-> Cardinality(job_urls),
     scraped_urls    |-> Cardinality({d \in job_urls : d.scraped}),
     pending_urls    |-> Cardinality({d \in job_urls :
                                        d.has_scraped /\ ~d.scraped}),
     total_jobs      |-> Cardinality(DOMAIN jobs),
     classified_jobs |-> Len(classified_jobs)]

\* (mutant: the status marks the pending job urls)
CtlStatusMarking ==
    /\ ctl_pc = "returned"
    /\ ctl_status' = <<GetPipelineStatus>>
    /\ job_urls' = {[d EXCEPT !.scraped = TRUE] : d \in job_urls}
    /\ UNCHANGED <<urls_file, ctl_controller, ctl_step, env_creds, files,
                   wf_shape, ctl_pc, ctl_result, ctl_run, ctl_started,
                   ctl_failed, ctl_skipped, ctl_with_data, ctl_missing,
                   ctl_after_missing, ctl_late_dispatch, la_not_done,
                   la_attempted, la_left>>

\* main.py --step status: connect_to_db, then get_pipeline_status; neither
\* check_environment nor a stage is run.
CtlStatus ==
    /\ ctl_pc = "returned"
    /\ \E connected \in BOOLEAN :
         ctl_status' = IF connected THEN <<GetPipelineStatus>>
                                    ELSE ctl_status
    /\ UNCHANGED <<storeVars, ctl_controller, ctl_step, env_creds, files,
                   wf_shape, ctl_pc, ctl_result, ctl_run, ctl_started,
                   ctl_failed, ctl_skipped, ctl_with_data, ctl_missing,
                   ctl_after_missing, ctl_late_dispatch, la_not_done,
                   la_attempted, la_left>>

\* what the controllers leave alone
CtlOthers ==
    <<limVars, storeVars, suVars, soVars, sjVars, dcVars, coVars, prVars,
      paVars, ixVars, exVars,
      plVars, blVars>>

NextControllers ==
    \/ CtlStart /\ UNCHANGED CtlOthers
    \/ CtlSkipStage /\ UNCHANGED CtlOthers
    \/ CtlRunStage /\ UNCHANGED CtlOthers

(***************************************************************************)
(* The parsing of one completion: the try block of classify_job_post       *)
(* (data_classification.py) and clean_and_parse_json                       *)
(* (data_classification_linux_amd.py), each applied to a text.             *)
(***************************************************************************)
\* The JSON texts with, in addition, an object that is valid but for a
\* comma before its closing brace, with every section or without
\* prospecting_intelligence.
AmdJsonTexts == JsonTexts \cup {"full_comma", "partial_comma"}
AmdOutputs ==
    [before : Surroundings, json : AmdJsonTexts, after : Surroundings]

\* An object with a trailing comma is, for json.loads, braces around text
\* that is not JSON.
AsRawOutput(text) ==
    [text EXCEPT !.json = IF text.json \in {"full_comma", "partial_comma"}
                          THEN "broken" ELSE text.json]

\* clean_and_parse_json: the text from the first "{" to the last "}" is
\* parsed; a parsed object is returned when it has the four sections, else
\* None.  On JSONDecodeError the commas before a closing brace are removed
\* from the whole text, which is parsed again and returned as it is.
CleanAndParseJson(text) ==
    IF text.before = "braces" \/ text.after = "braces"
    THEN "None"
    ELSE CASE text.json = "full" -> "full"
           [] text.json = "partial" -> "None"
           [] text.json \in {"array", "none"} -> "None"
           [] text.json = "broken" -> "None"
           [] text.json = "full_comma" ->
                IF text.before = "" /\ text.after = "" THEN "full" ELSE "None"
           [] text.json = "partial_comma" ->
                IF text.before = "" /\ text.after = ""
                THEN "partial" ELSE "None"

InitParse ==
    /\ pr_raw = [before |-> "", json |-> "none", after |-> ""]
    /\ pr_parser = "none"
    /\ pr_result = "none"

\* classify_job_post, from raw_output to its return or its ValueError
PrClassifyJobPost ==
    /\ pr_parser = "none"
    /\ pr_parser' = "classify_job_post"
    /\ pr_result' = ParseOutput(AsRawOutput(pr_raw))
    /\ UNCHANGED pr_raw

\* clean_and_parse_json(response_text)
PrCleanAndParseJson ==
    /\ pr_parser = "none"
    /\ pr_parser' = "clean_and_parse_json"
    /\ pr_result' = CleanAndParseJson(pr_raw)
    /\ UNCHANGED pr_raw

\* what the parsers leave alone
PrOthers ==
    <<limVars, storeVars, suVars, soVars, sjVars, dcVars, coVars, ctlVars,
      paVars, ixVars, exVars,
      plVars, blVars>>

NextParse ==
    \/ PrClassifyJobPost /\ UNCHANGED PrOthers
    \/ PrCleanAndParseJson /\ UNCHANGED PrOthers

(***************************************************************************)
(* scrap_urls_parallel.py: main gathers a group of batches; each           *)
(* process_urls_batch makes a semaphore of its own and gathers one task    *)
(* per url of the batch; a request is sent inside "async with semaphore".  *)
(* scrap_jobData_parallel.py has the same structure.                       *)
(***************************************************************************)
\* The batches of one batch group and the tasks of each batch.
PaBatches == {"B0", "B1"}
PaTasks == PaBatches \X (1..TasksPerBatch)

\* The tasks of a batch that are inside "async with semaphore".
Holding(batch) ==
    {t \in PaTasks : t[1] = batch /\ pa_pc[t] = "in_flight"}

InitParallel ==
    /\ pa_main = "stopped"
    /\ pa_pc = [t \in PaTasks |-> "idle"]
    /\ pa_attempt = [t \in PaTasks |-> 0]
    /\ pa_page = [t \in PaTasks |-> 1]

\* main, "await asyncio.gather(*batch_tasks)": every process_urls_batch of
\* the group creates its tasks.
PaStart ==
    /\ pa_main = "stopped"
    /\ pa_main' = "gathering"
    /\ pa_pc' = [t \in PaTasks |-> "waiting"]
    /\ pa_attempt' = [t \in PaTasks |-> 0]
    /\ pa_page' = [t \in PaTasks |-> 1]

\* async_zenrows_request: the task enters "async with semaphore", the
\* semaphore of its batch, waits for the rate limiter and sends the request.
PaAcquire(t) ==
    /\ pa_main = "gathering"
    /\ pa_pc[t] = "waiting"
    /\ Cardinality(Holding(t[1])) < ConcurrentRequests
    /\ pa_pc' = [pa_pc EXCEPT ![t] = "in_flight"]
    /\ UNCHANGED <<pa_main, pa_attempt, pa_page>>

\* The response arrives and the semaphore is released; by the content
\* scrape_url_pages_async tries again (3 attempts), goes to the next page
\* or returns.
PaRespond(t) ==
    /\ pa_main = "gathering"
    /\ pa_pc[t] = "in_flight"
    /\ \E html_content \in {"none", "end", "links"} :
         CASE html_content = "none" ->
                IF pa_attempt[t] < 2
                THEN /\ pa_attempt' = [pa_attempt EXCEPT ![t] = @ + 1]
                     /\ pa_pc' = [pa_pc EXCEPT ![t] = "waiting"]
                     /\ UNCHANGED pa_page
                ELSE /\ pa_pc' = [pa_pc EXCEPT ![t] = "done"]
                     /\ UNCHANGED <<pa_attempt, pa_page>>
           [] html_content = "end" ->
                /\ pa_pc' = [pa_pc EXCEPT ![t] = "done"]
                /\ UNCHANGED <<pa_attempt, pa_page>>
           [] html_content = "links" ->
                IF pa_page[t] < MaxPage
                THEN /\ pa_page' = [pa_page EXCEPT ![t] = @ + 1]
                     /\ pa_attempt' = [pa_attempt EXCEPT ![t] = 0]
                     /\ pa_pc' = [pa_pc EXCEPT ![t] = "waiting"]
                ELSE /\ pa_pc' = [pa_pc EXCEPT ![t] = "done"]
                     /\ UNCHANGED <<pa_attempt, pa_page>>
    /\ UNCHANGED pa_main

\* Every task of every batch has returned: the gathers return.
PaFinish ==
    /\ pa_main = "gathering"
    /\ \A t \in PaTasks : pa_pc[t] = "done"
    /\ pa_main' = "stopped"
    /\ pa_pc' = [t \in PaTasks |-> "idle"]
    /\ UNCHANGED <<pa_attempt, pa_page>>

\* what the batches leave alone
PaOthers ==
    <<limVars, storeVars, suVars, soVars, sjVars, dcVars, coVars, ctlVars,
      prVars, ixVars, exVars,
      plVars, blVars>>

NextUrlsParallel ==
    \/ PaStart /\ UNCHANGED PaOthers
    \/ \E t \in PaTasks : PaAcquire(t) /\ UNCHANGED PaOthers
    \/ \E t \in PaTasks : PaRespond(t) /\ UNCHANGED PaOthers
    \/ PaFinish /\ UNCHANGED PaOthers

(***************************************************************************)
(* The indexing stage: simple_index_jobs.py (main_optimized.py,            *)
(* main_parallel.py) and index_classified_jobs.py                          *)
(* (main_server_optimized.py), run as a script of which the controller     *)
(* sees the exit status.                                                   *)
(***************************************************************************)
IndexScripts == {"simple_index_jobs.py", "index_classified_jobs.py"}

\* return success_count > 0
Returned(success_count) == IF success_count > 0 THEN "True" ELSE "False"

\* (mutant: the script exits with the value of its function)
ScriptStatusOfReturned(returned) == IF returned = "True" THEN 0 ELSE 1

\* The __main__ block of both scripts prints one of two messages on the
\* value returned and ends: the exit status is 0.
ScriptStatus(returned) == 0

\* run_optimized_step: result.returncode == 0
RunOptimizedStep(returncode) == IF returncode = 0 THEN "True" ELSE "False"

InitIndex ==
    /\ ix_script = "none"
    /\ ix_pc = "idle"
    /\ ix_success_count = 0
    /\ ix_error_count = 0
    /\ ix_returned = "none"
    /\ ix_returncode = -1
    /\ ix_reported = "none"
    /\ ix_prev = "none"
    /\ es_job_docs = {}

\* the script ends with the status returncode, its function having returned
\* the value returned ("none" when it raised or called exit)
IxExit(returned, returncode) ==
    /\ ix_pc' = "exited"
    /\ ix_returned' = returned
    /\ ix_returncode' = returncode
    /\ ix_reported' = RunOptimizedStep(returncode)

IxReturn(returned) == IxExit(returned, ScriptStatus(returned))

\* The script up to its loop: index_classified_jobs.py exits with 1 without
\* MONGO_URI; a ping that fails returns False; health['cluster_name'] raises
\* when cluster_health gave None; index_classified_jobs.py returns False
\* when the index neither exists nor can be created; an empty collection
\* returns False.
IxStart ==
    /\ ix_pc = "idle"
    /\ \E script \in IndexScripts, ping, health, index_ready \in BOOLEAN :
         /\ ix_script' = script
         /\ IF script = "index_classified_jobs.py"
               /\ "MONGO_URI" \notin env_creds
            THEN IxExit("none", 1)
            ELSE IF ~ping
            THEN IxReturn("False")
            ELSE IF ~health
            THEN IxExit("none", 1)
            ELSE IF (script = "index_classified_jobs.py" /\ ~index_ready)
                    \/ Len(classified_jobs) = 0
            THEN IxReturn("False")
            ELSE /\ ix_pc' = "indexing"
                 /\ UNCHANGED <<ix_returned, ix_returncode, ix_reported>>
    /\ UNCHANGED <<ix_success_count, ix_error_count, ix_prev, es_jobs,
                   es_job_docs>>

\* ElasticsearchRequests.get_document: response.json() when the request
\* answered 200, None for any other answer and when the request failed.
\* got says that the request was answered; the answer is 200 when the
\* document exists.
GetDocument(doc_id, got) ==
    IF got /\ es_jobs[doc_id] > 0 THEN "found" ELSE "None"

\* The jobs list index_classified_jobs.py puts under the company: the jobs
\* of existing_doc and the new job when existing_doc was found, else the
\* new job alone in a new document.
CompanyJobs(doc_id, existing_doc) ==
    IF existing_doc = "found" THEN es_jobs[doc_id] + 1 ELSE 1

\* One document of the cursor: the request answers 200 or 201, or it does
\* not, or the body of the try raises.  index_classified_jobs.py reads the
\* document of the company and puts it back whole, under the name of the
\* company; simple_index_jobs.py puts a document of the job under the last
\* segment of its source_url.  Both write to the index ES_INDEX names.
IxItem ==
    /\ ix_pc = "indexing"
    /\ ix_success_count + ix_error_count < Len(classified_jobs)
    /\ \E company_name \in DOMAIN es_jobs, got, indexed \in BOOLEAN :
         LET job_doc == classified_jobs[ix_success_count + ix_error_count + 1]
         IN  IF indexed
             THEN /\ ix_success_count' = ix_success_count + 1
                  /\ IF ix_script = "index_classified_jobs.py"
                     THEN /\ es_jobs' =
                               [es_jobs EXCEPT
                                  ![company_name] =
                                     CompanyJobs(company_name,
                                       GetDocument(company_name, got))]
                          /\ UNCHANGED es_job_docs
                     ELSE /\ es_job_docs' =
                               es_job_docs \cup {job_doc.source_url}
                          /\ UNCHANGED es_jobs
                  /\ UNCHANGED ix_error_count
             ELSE /\ ix_error_count' = ix_error_count + 1
                  /\ UNCHANGED <<ix_success_count, es_jobs, es_job_docs>>
    /\ UNCHANGED <<ix_script, ix_pc, ix_returned, ix_returncode,
                   ix_reported, ix_prev>>

\* after the last document: the statistics, and return success_count > 0
IxFinish ==
    /\ ix_pc = "indexing"
    /\ ix_success_count + ix_error_count = Len(classified_jobs)
    /\ IxReturn(Returned(ix_success_count))
    /\ UNCHANGED <<ix_script, ix_success_count, ix_error_count, ix_prev,
                   es_jobs, es_job_docs>>

\* index_data of the controller once more, the collection as it was: a new
\* process of the script, the index as the run before left it.  One run
\* follows the first.
IxAgain ==
    /\ ix_pc = "exited"
    /\ ix_prev = "none"
    /\ ix_prev' = IF ix_returned = "True" /\ ix_error_count = 0
                  THEN ix_script ELSE "partial"
    /\ ix_script' = "none"
    /\ ix_pc' = "idle"
    /\ ix_success_count' = 0
    /\ ix_error_count' = 0
    /\ ix_returned' = "none"
    /\ ix_returncode' = -1
    /\ ix_reported' = "none"
    /\ UNCHANGED <<es_jobs, es_job_docs>>

\* what the indexing leaves alone
IxOthers ==
    <<limVars, storeVars, suVars, soVars, sjVars, jobs, classified_jobs,
      dc_pc, dc_todo, dc_batch, dc_results, dc_attempts, dc_i, dc_run,
      dcLogs, coVars, ctlVars, prVars, paVars, exVars, plVars, blVars>>

NextIndex ==
    \/ IxStart /\ UNCHANGED IxOthers
    \/ IxItem /\ UNCHANGED IxOthers
    \/ IxFinish /\ UNCHANGED IxOthers
    \/ IxAgain /\ UNCHANGED IxOthers

(***************************************************************************)
(* extract_job_data of scrap_jobData.py and of scrap_jobData_optimized.py, *)
(* applied to one page.                                                    *)
(***************************************************************************)
\* fields an xpath extracts from the page
Fields == {"company_name", "position", "skills", "founder"}

\* A page: the document parses or is empty; it has the JobListing div or
\* not; the fields whose element it holds; its company information grid is
\* absent, holds pairs, or holds an img whose alt is the name of a field
\* already set to a string or None (job_data[key].append raises); its
\* funding block is absent, holds pairs, or makes its extraction raise.
Pages ==
    {p \in [document : {"html", "empty"}, anchor : BOOLEAN,
            has : SUBSET Fields, grid : {"none", "pairs", "clash"},
            funding : {"none", "pairs", "raises"}] :
       p.document = "empty" =>
          (~p.anchor /\ p.has = {} /\ p.grid = "none"
           /\ p.funding = "none")}

NotExtracted == [returned |-> "none", fields |-> {}]

\* scrap_jobData.py: one try around the whole body.  html.fromstring raises
\* on an empty document and a grid that clashes raises: the except returns
\* None.  No JobListing div returns None.  The funding block has a try of
\* its own.
ExtractJobData(p) ==
    IF p.document = "empty" \/ ~p.anchor \/ p.grid = "clash"
    THEN [returned |-> "None", fields |-> {}]
    ELSE [returned |-> "dict",
          fields |-> p.has
                     \cup (IF p.grid = "pairs" THEN {"grid"} ELSE {})
                     \cup (IF p.funding = "pairs" THEN {"funding"} ELSE {})]

\* scrap_jobData_optimized.py: safe_extract per field, the empty fields
\* dropped; it looks for no JobListing div, grid or funding block, and an
\* exception of html.fromstring returns a dict with the error.
ExtractJobDataOptimized(p) ==
    IF p.document = "empty"
    THEN [returned |-> "error_dict", fields |-> {}]
    ELSE [returned |-> "dict", fields |-> p.has]

InitExtract ==
    /\ ex_page = CHOOSE p \in Pages : p.document = "empty"
    /\ ex_extractor = "none"
    /\ ex_result = NotExtracted

ExScrapJobData ==
    /\ ex_extractor = "none"
    /\ ex_extractor' = "scrap_jobData.py"
    /\ ex_result' = ExtractJobData(ex_page)
    /\ UNCHANGED ex_page

ExScrapJobDataOptimized ==
    /\ ex_extractor = "none"
    /\ ex_extractor' = "scrap_jobData_optimized.py"
    /\ ex_result' = ExtractJobDataOptimized(ex_page)
    /\ UNCHANGED ex_page

\* what the extraction leaves alone
ExOthers ==
    <<limVars, storeVars, suVars, soVars, sjVars, dcVars, coVars, ctlVars,
      prVars, paVars, ixVars, plVars, blVars>>

NextExtract ==
    \/ ExScrapJobData /\ UNCHANGED ExOthers
    \/ ExScrapJobDataOptimized /\ UNCHANGED ExOthers

(***************************************************************************)
(* The page loop of one base url: scrape_pages_for_url (scrap_urls.py),    *)
(* scrape_url_pages_async (scrap_urls_parallel.py), scrape_url_worker      *)
(* (scrap_urls_optimized.py) and scrape_url_worker_server_optimized        *)
(* (scrap_urls_server_optimized.py), the gateway answering as it likes.    *)
(* Only the last of them compares page with a number: the pages from       *)
(* PageHorizon on are taken as one.                                        *)
(***************************************************************************)
PageLoops == {"scrap_urls.py", "scrap_urls_parallel.py",
              "scrap_urls_optimized.py", "scrap_urls_server_optimized.py"}

PageHorizon == ServerMaxPages + 1

\* What the gateway can answer: nothing, the 404 page, the zero-results
\* page, a body the parser raises on, or a listing with so many job links.
PlResponses ==
    {[kind |-> k, links |-> 0] : k \in {"none", "404", "zero", "unparsable"}}
    \cup {[kind |-> "listing", links |-> n] : n \in {0, 2, 4, 9, 10}}

NoResponse == [kind |-> "no request", links |-> 0]

\* page += 1
NextPage(page) == IF page < PageHorizon THEN page + 1 ELSE page

InitPageLoop ==
    /\ pl_script = "none"
    /\ pl_pc = "idle"
    /\ pl_page = 1
    /\ pl_attempt = 1
    /\ pl_failures = 0
    /\ pl_last = NoResponse

PlStart ==
    /\ pl_pc = "idle"
    /\ pl_script' \in PageLoops
    /\ pl_pc' = "fetching"
    /\ UNCHANGED <<pl_page, pl_attempt, pl_failures, pl_last>>

\* the function returns
PlReturn ==
    /\ pl_pc' = "returned"
    /\ UNCHANGED <<pl_page, pl_attempt, pl_failures>>

\* the next attempt for the same page
PlRetry ==
    /\ pl_attempt' = pl_attempt + 1
    /\ UNCHANGED <<pl_pc, pl_page, pl_failures>>

\* the first attempt for the next page
PlNextPage ==
    /\ pl_page' = NextPage(pl_page)
    /\ pl_attempt' = 1
    /\ pl_failures' = 0
    /\ UNCHANGED pl_pc

\* scrap_urls.py, one pass of "for attempt in range(1, 4)"
PlScrapUrls(r) ==
    CASE r.kind \in {"none", "unparsable"} ->
           IF pl_attempt < 3 THEN PlRetry ELSE PlReturn
      [] r.kind \in {"404", "zero"} -> PlReturn
      [] r.kind = "listing" /\ r.links = 0 ->
           IF pl_attempt < 3 THEN PlRetry ELSE PlNextPage
      [] OTHER -> PlNextPage

\* scrap_urls_parallel.py, one pass of "for attempt in range(3)" with what
\* follows the loop
PlScrapUrlsParallel(r) ==
    CASE r.kind = "none" ->
           IF pl_attempt < 3 THEN PlRetry ELSE PlReturn
      [] r.kind \in {"404", "zero", "unparsable"} -> PlReturn
      [] r.kind = "listing" /\ r.links = 0 -> PlReturn
      [] OTHER -> PlNextPage

\* scrape_single_page returned False with an error that is not terminal:
\* consecutive_failures += 1
PlPageFailed ==
    IF pl_failures + 1 < PageFailureLimit
    THEN /\ pl_failures' = pl_failures + 1
         /\ pl_attempt' = 1
         /\ UNCHANGED <<pl_pc, pl_page>>
    ELSE PlReturn

\* scrap_urls_optimized.py, one pass of "for attempt in range(MAX_RETRIES)"
\* with what follows in scrape_url_worker
PlScrapUrlsOptimized(r) ==
    CASE r.kind \in {"none", "unparsable"}
         \/ (r.kind = "listing" /\ r.links = 0) ->
           IF pl_attempt < MAX_RETRIES THEN PlRetry ELSE PlPageFailed
      [] r.kind \in {"404", "zero"} -> PlReturn
      [] OTHER -> IF r.links < 5 THEN PlReturn ELSE PlNextPage

\* scrap_urls_server_optimized.py: the same with its own pagination rules
\* and "while consecutive_failures < 3 and page <= max_pages"
PlScrapUrlsServerOptimized(r) ==
    CASE r.kind \in {"none", "unparsable"}
         \/ (r.kind = "listing" /\ r.links = 0) ->
           IF pl_attempt < MAX_RETRIES THEN PlRetry ELSE PlPageFailed
      [] r.kind \in {"404", "zero"} -> PlReturn
      [] OTHER ->
           IF r.links < 3 \/ (r.links < 10 /\ pl_page > DiminishingPage)
                          \/ pl_page + 1 > ServerMaxPages
           THEN PlReturn
           ELSE PlNextPage

\* one request of the loop and what the script does with the answer
PlFetch ==
    /\ pl_pc = "fetching"
    /\ \E r \in PlResponses :
         /\ pl_last' = r
         /\ CASE pl_script = "scrap_urls.py" -> PlScrapUrls(r)
              [] pl_script = "scrap_urls_parallel.py" ->
                   PlScrapUrlsParallel(r)
              [] pl_script = "scrap_urls_optimized.py" ->
                   PlScrapUrlsOptimized(r)
              [] OTHER -> PlScrapUrlsServerOptimized(r)
    /\ UNCHANGED pl_script

\* what the page loop leaves alone
PlOthers ==
    <<limVars, storeVars, suVars, soVars, sjVars, dcVars, coVars, ctlVars,
      prVars, paVars, ixVars, exVars, blVars>>

NextPageLoop ==
    \/ PlStart /\ UNCHANGED PlOthers
    \/ PlFetch /\ UNCHANGED PlOthers

(***************************************************************************)
(* scrap_urls_optimized.py: the lock of BatchURLProcessor, taken by the    *)
(* workers in add_url, by main in its final flush and by signal_handler,   *)
(* which runs in the main thread on top of whatever main was doing.        *)
(***************************************************************************)
BufferThreads == {"w1", "w2"}

InitBufferLock ==
    /\ bl_main = "stopped"
    /\ bl_handler = "none"
    /\ bl_lock = "none"
    /\ bl_wpc = [w \in BufferThreads |-> "idle"]
    /\ bl_left = [w \in BufferThreads |-> 0]
    /\ bl_batch = 0

\* main up to as_completed: the workers are submitted, each with the job
\* links its pages will show.
BlStart ==
    /\ bl_main = "stopped"
    /\ bl_main' = "waiting"
    /\ bl_wpc' = [w \in BufferThreads |-> "working"]
    /\ bl_left' \in [BufferThreads -> 0..LinksPerWorker]
    /\ UNCHANGED <<bl_handler, bl_lock, bl_batch>>

\* add_url, "with self.lock": the worker waits until the lock is free
BlWorkerAcquire(w) ==
    /\ bl_wpc[w] = "working"
    /\ bl_left[w] > 0
    /\ bl_lock = "none"
    /\ bl_lock' = w
    /\ bl_wpc' = [bl_wpc EXCEPT ![w] = "adding"]
    /\ UNCHANGED <<bl_main, bl_handler, bl_left, bl_batch>>

\* add_url under the lock: the url is appended, a full batch flushed, and
\* the with-block releases the lock.
BlWorkerAdd(w) ==
    /\ bl_wpc[w] = "adding"
    /\ bl_batch' = IF bl_batch + 1 >= BatchSize THEN 0 ELSE bl_batch + 1
    /\ bl_lock' = "none"
    /\ bl_left' = [bl_left EXCEPT ![w] = bl_left[w] - 1]
    /\ bl_wpc' = [bl_wpc EXCEPT ![w] = "working"]
    /\ UNCHANGED <<bl_main, bl_handler>>

\* scrape_url_worker returns
BlWorkerReturn(w) ==
    /\ bl_wpc[w] = "working"
    /\ bl_left[w] = 0
    /\ bl_wpc' = [bl_wpc EXCEPT ![w] = "done"]
    /\ UNCHANGED <<bl_main, bl_handler, bl_lock, bl_left, bl_batch>>

\* main after the executor, batch_processor.flush(): "with self.lock".
\* While signal_handler runs, main does not go on.
BlMainAcquire ==
    /\ bl_main = "waiting"
    /\ bl_handler = "none"
    /\ \A w \in BufferThreads : bl_wpc[w] = "done"
    /\ bl_lock = "none"
    /\ bl_lock' = "main"
    /\ bl_main' = "flushing"
    /\ UNCHANGED <<bl_handler, bl_wpc, bl_left, bl_batch>>

\* _flush_batch under the lock of main, and the release
BlMainFlush ==
    /\ bl_main = "flushing"
    /\ bl_handler = "none"
    /\ bl_batch' = 0
    /\ bl_lock' = "none"
    /\ bl_main' = "saving"
    /\ UNCHANGED <<bl_handler, bl_wpc, bl_left>>

\* the final save of the file and the statistics: main returns
BlMainReturn ==
    /\ bl_main = "saving"
    /\ bl_handler = "none"
    /\ bl_main' = "returned"
    /\ UNCHANGED <<bl_handler, bl_lock, bl_wpc, bl_left, bl_batch>>

\* SIGINT: signal_handler is called in the main thread, wherever main is
BlSignal ==
    /\ bl_main \in {"waiting", "flushing", "saving"}
    /\ bl_handler = "none"
    /\ bl_handler' = "called"
    /\ UNCHANGED <<bl_main, bl_lock, bl_wpc, bl_left, bl_batch>>

\* signal_handler, batch_processor.flush(): "with self.lock" of a Lock that
\* is not reentrant: the handler waits until the lock is free, whoever
\* holds it.
BlHandlerAcquire ==
    /\ bl_handler = "called"
    /\ bl_lock = "none"
    /\ bl_lock' = "handler"
    /\ bl_handler' = "flushing"
    /\ UNCHANGED <<bl_main, bl_wpc, bl_left, bl_batch>>

\* _flush_batch under the lock of the handler, and the release
BlHandlerFlush ==
    /\ bl_handler = "flushing"
    /\ bl_batch' = 0
    /\ bl_lock' = "none"
    /\ bl_handler' = "exiting"
    /\ UNCHANGED <<bl_main, bl_wpc, bl_left>>

\* sys.exit(0): SystemExit leaves main; inside the with-block of the
\* executor it waits for the workers first.
BlHandlerExit ==
    /\ bl_handler = "exiting"
    /\ bl_main = "waiting" => \A w \in BufferThreads : bl_wpc[w] = "done"
    /\ bl_main' = "exited"
    /\ bl_handler' = "done"
    /\ UNCHANGED <<bl_lock, bl_wpc, bl_left, bl_batch>>

\* what the lock leaves alone
BlOthers ==
    <<limVars, storeVars, suVars, soVars, sjVars, dcVars, coVars, ctlVars,
      prVars, paVars, ixVars, exVars, plVars>>

\* the steps of the threads of the process
BlRun ==
    \/ BlStart
    \/ \E w \in BufferThreads : BlWorkerAcquire(w)
    \/ \E w \in BufferThreads : BlWorkerAdd(w)
    \/ \E w \in BufferThreads : BlWorkerReturn(w)
    \/ BlMainAcquire
    \/ BlMainFlush
    \/ BlMainReturn
    \/ BlHandlerAcquire
    \/ BlHandlerFlush
    \/ BlHandlerExit

NextBufferLock ==
    \/ BlRun /\ UNCHANGED BlOthers
    \/ BlSignal /\ UNCHANGED BlOthers

(***************************************************************************)
(* The specifications.                                                     *)
(***************************************************************************)
\* The stages at rest, each with its stores as the stage before left them.
StagesAtRest ==
    /\ InitUrls /\ InitUrlsOpt /\ InitJobsOpt /\ InitClassify
    /\ InitClassifyOpt /\ InitControllers /\ InitParse /\ InitParallel
    /\ InitIndex /\ InitExtract /\ InitPageLoop /\ InitBufferLock

InitRateLimiter ==
    /\ InitLimiter({"plain"})
    /\ InitStores /\ StagesAtRest /\ jobs = [d \in DocIds |-> "k1"]
SpecRateLimiter == InitRateLimiter /\ [][NextLimiter]_vars

\* The same limiter with the threads that wait for its lock, under the
\* scheduling of the threads.
SpecCallers == InitRateLimiter /\ [][NextCallers]_vars /\ FairCallers

InitServerRateLimiter ==
    /\ InitLimiter({"urls", "jobs", "classify"})
    /\ InitStores /\ StagesAtRest /\ jobs = [d \in DocIds |-> "k1"]
SpecServerRateLimiter == InitServerRateLimiter /\ [][NextLimiter]_vars

InitSpecUrls ==
    /\ IdleLimiter /\ InitStores /\ StagesAtRest
    /\ jobs = [d \in DocIds |-> "k1"]
SpecUrls == InitSpecUrls /\ [][NextUrls]_vars

\* scrap_urls_optimized.py finds whatever earlier runs left in the file.
InitSpecUrlsOpt ==
    /\ IdleLimiter /\ StagesAtRest
    /\ jobs = [d \in DocIds |-> "k1"]
    /\ urls_file \in [BaseUrls -> BOOLEAN]
    /\ job_urls = {}
SpecUrlsOpt == InitSpecUrlsOpt /\ [][NextUrlsOpt]_vars
SpecUrlsOptSignal == InitSpecUrlsOpt /\ [][NextUrlsOptSignal]_vars

\* scrap_urls_optimized.py on the file build_url.py wrote, the links of
\* every base url followed
InitSpecUrlsOptFound ==
    /\ IdleLimiter /\ InitStores
    /\ InitUrls /\ UrlsOptAtRest /\ InitJobsOpt /\ InitClassify
    /\ InitClassifyOpt /\ InitControllers /\ InitParse /\ InitParallel
    /\ InitIndex /\ InitExtract /\ InitPageLoop /\ InitBufferLock
    /\ jobs = [d \in DocIds |-> "k1"]
    /\ so_found = [u \in BaseUrls |-> {}]
SpecUrlsOptFound == InitSpecUrlsOptFound /\ [][NextUrlsOpt]_vars

\* scrap_jobData_optimized.py finds the job urls the url stage stored.
InitSpecJobsOpt ==
    /\ IdleLimiter /\ StagesAtRest
    /\ jobs = [d \in DocIds |-> "k1"]
    /\ urls_file = [u \in BaseUrls |-> TRUE]
    /\ job_urls = {NewJobUrl(h) : h \in JobLinks}
SpecJobsOpt == InitSpecJobsOpt /\ [][NextJobsOpt]_vars

\* scrap_jobData_optimized.py finds three job urls, none scraped, and its
\* process keeps running: the threads of the pool and the main thread in
\* as_completed go on while any of them can.
InitSpecJobsPool ==
    /\ IdleLimiter /\ StagesAtRest
    /\ jobs = [d \in DocIds |-> "k1"]
    /\ urls_file = [u \in BaseUrls |-> TRUE]
    /\ job_urls = {NewJobUrl(h) : h \in JobKeys}
\* main.py --step status, run at any moment of the job stage
NextStatus ==
    \/ NextJobsOpt
    \/ CtlStatus /\ UNCHANGED <<limVars, suVars, soVars, sjVars, dcVars,
                                coVars, prVars, paVars, ixVars, exVars,
      plVars, blVars>>
SpecStatus == InitSpecJobsOpt /\ [][NextStatus]_vars

SpecJobsPool ==
    InitSpecJobsPool /\ [][NextJobsOpt]_vars /\ WF_vars(NextJobsOpt)

\* data_classification.py finds the collection jobs as it was filled: it
\* has no unique index, so two documents may carry one source_url.  The
\* source urls are interchangeable: the first document carries the first.
InitSpecClassify ==
    /\ IdleLimiter /\ InitStores /\ StagesAtRest
    /\ jobs \in [DocIds -> SourceUrls]
    /\ jobs[Docs[1]] = "k1"
SpecClassify == InitSpecClassify /\ [][NextClassify]_vars

\* data_classification_optimized.py reads the same collection jobs
InitSpecClassifyOpt ==
    /\ IdleLimiter /\ InitStores /\ StagesAtRest
    /\ jobs \in [DocIds -> SourceUrls]
    /\ jobs[Docs[1]] = "k1"
SpecClassifyOpt == InitSpecClassifyOpt /\ [][NextClassifyOpt]_vars

\* A controller is started in an environment with any of the credentials
\* and with or without the configuration, the url file and the artifacts of
\* the later stages.
InitSpecControllers ==
    /\ IdleLimiter /\ InitStores
    /\ InitUrls /\ InitUrlsOpt /\ InitJobsOpt /\ InitClassify
    /\ InitClassifyOpt /\ InitParse /\ InitParallel /\ InitIndex
    /\ InitExtract /\ InitPageLoop /\ InitBufferLock
    /\ jobs = [d \in DocIds |-> "k1"]
    /\ ControllersAtRest
    /\ ctl_controller \in Controllers
    /\ env_creds \in SUBSET Credentials
    /\ wf_shape \in {"list", "dict"}
    /\ files \in [FileNames -> {"missing", "data"}]
    /\ files["data/url.json"] = "missing"
    /\ files["wellfound_urls.json"] = "missing" => wf_shape = "list"
SpecControllers == InitSpecControllers /\ [][NextControllers]_vars

\* A completion of any text is handed to one of the two parsers.
InitSpecParse ==
    /\ IdleLimiter /\ InitStores
    /\ InitUrls /\ InitUrlsOpt /\ InitJobsOpt /\ InitClassify
    /\ InitClassifyOpt /\ InitControllers /\ InitParallel /\ InitIndex
    /\ InitExtract /\ InitPageLoop /\ InitBufferLock
    /\ jobs = [d \in DocIds |-> "k1"]
    /\ pr_raw \in AmdOutputs
    /\ pr_parser = "none"
    /\ pr_result = "none"
SpecParse == InitSpecParse /\ [][NextParse]_vars

\* scrap_urls_parallel.py with a group of two batches
InitSpecUrlsParallel ==
    /\ IdleLimiter /\ InitStores /\ StagesAtRest
    /\ jobs = [d \in DocIds |-> "k1"]
SpecUrlsParallel == InitSpecUrlsParallel /\ [][NextUrlsParallel]_vars

\* The indexing scripts find the documents the classification inserted,
\* indexed by it or not, with or without MONGO_URI in the environment.
InitSpecIndex ==
    /\ IdleLimiter /\ InitStores
    /\ InitUrls /\ InitUrlsOpt /\ InitJobsOpt /\ ClassifyAtRest
    /\ InitClassifyOpt /\ InitParse /\ InitParallel /\ InitIndex
    /\ InitExtract /\ InitPageLoop /\ InitBufferLock
    /\ jobs = [d \in DocIds |-> "k1"]
    /\ \E n \in 0..MaxIndexed :
         classified_jobs = [i \in 1..n |-> [source_url |-> "k1",
                                            regions |-> "full"]]
    /\ es_jobs \in [Companies \ {""} -> 0..1]
    /\ \A c \in DOMAIN es_jobs : es_jobs[c] <= Len(classified_jobs)
    /\ ControllersAtRest
    /\ ctl_controller = "main_optimized"
    /\ env_creds \in {Credentials, Credentials \ {"MONGO_URI"}}
    /\ wf_shape = "list"
    /\ files = [f \in FileNames |-> "data"]
SpecIndex == InitSpecIndex /\ [][NextIndex]_vars

\* extract_job_data on every page
InitSpecExtract ==
    /\ IdleLimiter /\ InitStores
    /\ InitUrls /\ InitUrlsOpt /\ InitJobsOpt /\ InitClassify
    /\ InitClassifyOpt /\ InitControllers /\ InitParse /\ InitParallel
    /\ InitIndex
    /\ jobs = [d \in DocIds |-> "k1"]
    /\ InitPageLoop /\ InitBufferLock
    /\ ex_page \in Pages
    /\ ex_extractor = "none"
    /\ ex_result = NotExtracted
SpecExtract == InitSpecExtract /\ [][NextExtract]_vars

\* the page loop of one base url; a request that can be made is made
InitSpecPageLoop ==
    /\ IdleLimiter /\ InitStores /\ StagesAtRest
    /\ jobs = [d \in DocIds |-> "k1"]
SpecPageLoop ==
    /\ InitSpecPageLoop /\ [][NextPageLoop]_vars
    /\ WF_vars(PlFetch /\ UNCHANGED PlOthers)

\* the lock of the url buffer, SIGINT at any moment; a thread that can
\* take a step takes it
InitSpecBufferLock ==
    /\ IdleLimiter /\ InitStores /\ StagesAtRest
    /\ jobs = [d \in DocIds |-> "k1"]
SpecBufferLock ==
    /\ InitSpecBufferLock /\ [][NextBufferLock]_vars
    /\ WF_vars(BlRun /\ UNCHANGED BlOthers)

(***************************************************************************)
(* The properties.                                                         *)
(***************************************************************************)

(***************************************************************************)
(* C1: a stage run after a completed run leaves the set of DONE keys as it *)
(* was, and no run requests a page of a key that was DONE when the run     *)
(* started.                                                                *)
(***************************************************************************)
C1_Idempotent ==
    /\ so_fetched \cap so_done_at_start = {}
    /\ (so_run >= 2 /\ so_pc = "stopped")
          => {u \in BaseUrls : urls_file[u]} = so_done_at_start

\* A second run has ended, and the first one had requested pages.
C1_Witness ==
    /\ so_run = 2
    /\ so_pc = "stopped"
    /\ so_done_at_start = BaseUrls
    /\ job_urls # {}

(***************************************************************************)
(* C2: every key submitted to a stage has exactly one terminal status,     *)
(* DONE or FAILED, after the stage run; none is left without one.  The     *)
(* classification stage has one mark, the document of classified_jobs      *)
(* (DONE); it stores nothing for a failure.                                *)
(***************************************************************************)
C2_PartitionComplete ==
    (dc_run >= 1 /\ dc_pc = "stopped")
        => \A k \in dc_submitted : k \in ClassifiedUrls(classified_jobs)

(***************************************************************************)
(* C3: a key is marked DONE only on unit success; a key whose unit of work *)
(* failed is marked FAILED, not DONE.  In scrap_urls.py DONE is the        *)
(* "value": true of wellfound_urls.json, and the unit of a base url failed *)
(* when every attempt at its page was lost.                                *)
(***************************************************************************)
C3_DoneOnlyOnSuccess ==
    \A u \in BaseUrls : urls_file[u] => su_outcome[u] # "failed"

(***************************************************************************)
(* C4: a page whose every attempt fails transiently is requested exactly   *)
(* max_retries (3) times within a run and its key is then recorded FAILED; *)
(* no execution requests it more than max_retries times.                   *)
(***************************************************************************)
C4_RetryBound ==
    \A u \in BaseUrls :
        /\ so_requests[u] <= MAX_RETRIES
        /\ u \in so_gave_up => ~ so_targets[u]

\* Calls released in the trailing window that ends at time t.
ReleasedIn(t) ==
    Cardinality({i \in DOMAIN released :
                    released[i] <= t /\ t - released[i] < Window})

(***************************************************************************)
(* C5: a limiter of N calls per time unit releases at most N calls of      *)
(* wait_if_needed in any trailing window of one time unit, whatever the    *)
(* number of concurrent callers.                                           *)
(***************************************************************************)
C5_RateBound == \A t \in 0..MaxTime : ReleasedIn(t) <= max_calls

\* The window was full, a caller slept through it and more calls than N
\* have been released in all.
C5_Witness ==
    /\ slept
    /\ Len(released) > max_calls
    /\ \E t \in 0..MaxTime : ReleasedIn(t) = max_calls

(***************************************************************************)
(* C6: an adaptive limiter configured at N per second dispatches at most   *)
(* N times its largest adaptive factor in any sliding window of one        *)
(* second, also when the factor changes between consecutive calls.         *)
(***************************************************************************)
C6_AdaptiveRateBound ==
    \A t \in 0..MaxTime : ReleasedIn(t) * 10 <= max_calls * MaxFactor(profile)

\* The factor dropped while the window held more calls than the lowered
\* capacity; a caller slept and was released into that window.
C6_Witness ==
    /\ slept
    /\ adaptive_factor < 10
    /\ \E t \in 0..MaxTime : ReleasedIn(t) > max_calls

(***************************************************************************)
(* C7: when the gateway answers 429 on three consecutive attempts for key  *)
(* Y, exactly 3 attempts are made and Y is then FAILED, not DONE: its job  *)
(* url is not marked scraped.                                              *)
(***************************************************************************)
C7_ThrottledThenFailed ==
    \A j \in JobKeys :
        (sj_wpc[j] = "done" /\ sj_only429[j] /\ sj_requests[j] > 0)
            => /\ sj_requests[j] = MAX_RETRIES
               /\ \A d \in job_urls : d.url = JobUrl(j) => ~ d.scraped

(***************************************************************************)
(* C8: a work item whose fetched content holds the zero-results marker is  *)
(* marked DONE, and no later run fetches that item again.                  *)
(***************************************************************************)
C8_ZeroResultsNeverRefetched ==
    \A u \in su_zero_done : u \notin su_refetched

(***************************************************************************)
(* C9: a "value" flag that is true is never set back to false.             *)
(***************************************************************************)
C9_DoneNeverRegresses ==
    [][\A u \in BaseUrls : urls_file[u] => urls_file'[u]]_vars

(***************************************************************************)
(* C10: in every reachable state each stage collection (job_urls, job_data *)
(* and classified_jobs) holds at most one record per natural key.          *)
(***************************************************************************)
C10_OneRecordPerKey ==
    /\ \A d1, d2 \in job_urls : d1.url = d2.url => d1 = d2
    /\ \A d1, d2 \in job_data : d1.url = d2.url => d1 = d2
    /\ \A i, j \in DOMAIN classified_jobs :
         classified_jobs[i].source_url = classified_jobs[j].source_url
            => i = j

(***************************************************************************)
(* C12: the failure of one work item does not pass the per-item boundary   *)
(* of the stage: the run is not aborted, and when it ends every item the   *)
(* run selected has been processed, the items of a batch with a failed     *)
(* item included.                                                          *)
(***************************************************************************)
C12_ItemFailureContained ==
    /\ dc_handled \subseteq dc_selected
    /\ dc_failed \subseteq dc_handled
    /\ (dc_pc = "stopped" /\ dc_run > 0) => dc_handled = dc_selected

\* the first task of a batch ended in an exception, it was handled and the
\* loop went on to the second item
C12_Witness ==
    /\ dc_pc = "saving"
    /\ dc_i = 2
    /\ dc_results[dc_batch[1]] = "exception"
    /\ dc_batch[1] \in dc_failed

(***************************************************************************)
(* C19: an output whose JSON object lacks the prospecting_intel region is  *)
(* a classification error: no task returns the partial object and no       *)
(* document of classified_jobs holds one.                                  *)
(***************************************************************************)
C19_NoPartialRecord ==
    /\ \A d \in DocIds : dc_results[d] # "partial"
    /\ \A i \in DOMAIN classified_jobs :
         classified_jobs[i].regions # "partial"

(***************************************************************************)
(* C20: the retry policy is around the network call only: no job is tried  *)
(* more than STOP_AFTER_ATTEMPT times, and once an output of a job has     *)
(* failed both the direct parse and the regex recovery no further request  *)
(* is sent for that job.                                                   *)
(***************************************************************************)
C20_ParseFailureNotRetried ==
    /\ \A d \in DocIds : dc_attempts[d] <= STOP_AFTER_ATTEMPT
    /\ dc_reasked = {}

(***************************************************************************)
(* C11: when two workers have processed the same key concurrently, under   *)
(* whatever interleaving of their check, classify and write steps, the     *)
(* store holds one record for that key, whose content is that of the last  *)
(* write.                                                                  *)
(***************************************************************************)
C11_NoDuplicateUnderRace ==
    \A d1, d2 \in DocIds :
        (/\ d1 # d2
         /\ jobs[d1] = jobs[d2]
         /\ co_wpc[d1] = "done"
         /\ co_wpc[d2] = "done")
        => Cardinality({i \in DOMAIN classified_jobs :
                          classified_jobs[i].source_url = jobs[d1]}) <= 1

(***************************************************************************)
(* C13: the controller starts the stages in the fixed order generate_urls, *)
(* scrape_urls, scrape_jobs, classify, index, and starts no stage after a  *)
(* stage of the run has failed.                                            *)
(***************************************************************************)
C13_OrderedAndAborting ==
    \A i, j \in DOMAIN ctl_started :
        i < j => /\ Position(ctl_started[i]) < Position(ctl_started[j])
                 /\ ctl_started[i] \notin ctl_failed

(***************************************************************************)
(* C14: the controller skips a stage exactly when the artifact the stage   *)
(* declares as its output already holds data: no stage reached with data   *)
(* in its artifact is started, and no stage is skipped without it.         *)
(***************************************************************************)
C14_SkipWhenOutputHasData ==
    ctl_controller \in {"main_optimized", "main_linux_amd"}
    => /\ \A i \in DOMAIN ctl_started : ctl_started[i] \notin ctl_with_data
       /\ ctl_skipped \subseteq ctl_with_data

(***************************************************************************)
(* C15: once a required credential or the input file of a stage has been   *)
(* found missing, the run is aborted: no further stage is started, no work *)
(* item is dispatched, and the run does not return success.                *)
(***************************************************************************)
C15_MissingInputAborts ==
    /\ ctl_after_missing = {}
    /\ ~ctl_late_dispatch
    /\ (ctl_missing /\ ctl_pc = "returned") => ctl_result # "True"

C17_FlushedBeforeExit ==
    (so_pc = "stopped" /\ so_run > 0)
    => /\ so_batch = <<>>
       /\ \A u \in BaseUrls : so_targets[u] => urls_file[u]

(***************************************************************************)
(* C18: after the interrupt signal no worker takes up a work item that had *)
(* not been started; the items in flight run to their end.                 *)
(***************************************************************************)
C18_NoDispatchAfterSignal ==
    so_late = {}

(***************************************************************************)
(* C30: a completion that holds a JSON object with every region, with text *)
(* before or after it, fails the direct parse, is recovered by the search  *)
(* for the object, and the parser returns that object.                     *)
(***************************************************************************)
C30_WrappedObjectRecovered ==
    (/\ pr_parser # "none"
     /\ pr_raw.json = "full"
     /\ (pr_raw.before # "" \/ pr_raw.after # ""))
    => /\ JsonLoads(AsRawOutput(pr_raw)) = "JSONDecodeError"
       /\ pr_result = "full"

(***************************************************************************)
(* C29: an attempt of classify_job_post changes no collection and no       *)
(* index; classified_jobs changes only while process_batch goes through    *)
(* the gathered results, for a job whose classification was returned.      *)
(***************************************************************************)
C29_ClassifyWritesNoStore ==
    [][/\ (\E d \in DocIds : dc_attempts'[d] = dc_attempts[d] + 1)
            => /\ classified_jobs' = classified_jobs
               /\ es_jobs' = es_jobs
               /\ jobs' = jobs
       /\ (classified_jobs' # classified_jobs \/ es_jobs' # es_jobs)
            => /\ dc_pc = "saving"
               /\ IsDict(dc_results[dc_batch[dc_i]])
               /\ classified_jobs' =
                    InsertOne(classified_jobs,
                              [source_url |-> jobs[dc_batch[dc_i]],
                               regions |-> dc_results[dc_batch[dc_i]]])]_vars

\* classify_job_post has returned an object for a job and nothing of that
\* job is in classified_jobs yet
C29_Witness ==
    /\ dc_pc = "classifying"
    /\ \E d \in Range(dc_batch) :
         /\ IsDict(dc_results[d])
         /\ jobs[d] \notin ClassifiedUrls(classified_jobs)

(***************************************************************************)
(* C21: when a run of the pipeline has run the stage of the search urls    *)
(* to completion, the search urls that were requested in it are exactly    *)
(* those that were not done when the run started.                          *)
(***************************************************************************)
C21_WorkSetIsNotDone ==
    (/\ ctl_controller = "main_linux_amd"
     /\ env_creds = Credentials
     /\ "scrape_urls" \in Range(ctl_started)
     /\ "scrape_urls" \notin ctl_failed)
    => la_attempted = IF ctl_run = 1 THEN BaseUrls ELSE la_left

(***************************************************************************)
(* C22: a worker whose page answered 404 or zero results has returned and  *)
(* no step of the run requests that page again, while a page that fails    *)
(* in another way is requested at most 3 times in the run.                 *)
(***************************************************************************)
C22_TerminalShortCircuits ==
    [][\A u \in BaseUrls :
         /\ u \in so_terminal'
              => /\ so_wpc'[u] \notin {"queued", "working"}
                 /\ u \in so_terminal => so_requests'[u] = so_requests[u]
         /\ so_requests'[u] \in 0..MAX_RETRIES]_vars

(***************************************************************************)
(* C24: at every moment the number of requests in flight in the stage is   *)
(* at most the configured concurrency.                                     *)
(***************************************************************************)
C24_InFlightBounded ==
    Cardinality({t \in PaTasks : pa_pc[t] = "in_flight"})
        <= ConcurrentRequests

\* Nothing has failed in the run so far: no request went without a full job
\* page and every worker that returned had saved the job and marked its url.
EveryFetchSucceeded ==
    \A j \in JobKeys :
        /\ sj_attempt[j] = 0
        /\ sj_requests[j] <= 1
        /\ (sj_requests[j] = 1 /\ sj_wpc[j] # "scraping") => sj_success[j]

(***************************************************************************)
(* C23: with 3 unscraped job urls, a pool of 2 threads and every fetch     *)
(* succeeding, the run comes to its end with every job url scraped,        *)
(* however the workers are scheduled, and a run started when no job url is *)
(* unscraped hands no url to a worker.                                     *)
(***************************************************************************)
C23_PoolRunCompletes ==
    /\ <>(\/ ~EveryFetchSucceeded
          \/ /\ sj_run >= 1
             /\ sj_pc = "stopped"
             /\ Unscraped(job_urls) = {})
    /\ [][(sj_run' = sj_run + 1 /\ Unscraped(job_urls) = {})
            => /\ sj_pc' = "stopped"
               /\ \A j \in JobKeys : sj_wpc'[j] = "idle"
               /\ job_urls' = job_urls]_vars

\* the second run has started after a first run in which every fetch
\* succeeded: the three jobs are stored, their urls scraped, and no worker
\* has been given a url
C23_Witness ==
    /\ sj_run = 2
    /\ sj_pc = "stopped"
    /\ \A j \in JobKeys :
         /\ sj_requests[j] = 0
         /\ sj_success[j]
         /\ \E d \in job_data :
              d.url = JobUrl(j) /\ d.has_data /\ d.error = "none"
         /\ \E d \in job_urls : d.url = JobUrl(j) /\ d.scraped

C26_RunOneRunsOne ==
    ctl_step # "all"
    => /\ ctl_skipped = {}
       /\ ctl_started \in {<<>>, <<ctl_step>>}
       /\ ctl_pc \in {"returned", ctl_step}
       /\ (ctl_pc = "returned" /\ ctl_result = "True")
            => ctl_started = <<ctl_step>>
       /\ (ctl_pc = "returned" /\ ctl_started = <<>>)
            => ctl_result = "False"

\* main.py --step classify has returned True with the files of the stages
\* before it missing
C26_Witness ==
    /\ ctl_controller = "main"
    /\ ctl_step = "classify"
    /\ ctl_pc = "returned"
    /\ ctl_result = "True"
    /\ ctl_started = <<"classify">>
    /\ files["wellfound_urls.json"] = "missing"
    /\ files["data/data.json"] = "missing"

(***************************************************************************)
(* C27: the status operation changes no collection and no file: a step     *)
(* that gives new stats leaves the url file, job_urls, job_data, jobs,     *)
(* classified_jobs and the stage files as they are, and the stats are the  *)
(* counts over the collections as they stand.                              *)
(***************************************************************************)
C27_StatusReadOnly ==
    [][ctl_status' # ctl_status
         => /\ ctl_status' = <<GetPipelineStatus>>
            /\ UNCHANGED <<urls_file, job_urls, job_data, jobs,
                           classified_jobs, es_jobs, files, wf_shape>>]_vars

\* the status was taken with one job url scraped and one pending
C27_Witness ==
    /\ ctl_status # <<>>
    /\ ctl_status[1].scraped_urls = 1
    /\ ctl_status[1].pending_urls = 1
    /\ ctl_status = <<GetPipelineStatus>>


\* C28: a run of the indexing script whose loop ended with error_count
\* above zero is reported to the controller as a success, whatever its
\* success_count; the controller is told of a failure only when the script
\* ended before its function returned (it raised or called exit).
C28_ItemFailuresReportSuccess ==
    /\ (ix_pc = "exited" /\ ix_error_count > 0) => ix_reported = "True"
    /\ ix_reported = "False" => (ix_returned = "none" /\ ix_error_count = 0)

\* every document of a run failed, the function returned False and the
\* controller was told True
C28_Witness ==
    /\ ix_pc = "exited"
    /\ ix_error_count = Len(classified_jobs)
    /\ ix_error_count > 1
    /\ ix_success_count = 0
    /\ ix_returned = "False"
    /\ ix_reported = "True"


\* C31: when a job is indexed for a company that already has a document,
\* the jobs list of the document is the list it had plus the new job.
C31_JobsListGrows ==
    [][\A c \in DOMAIN es_jobs :
         (es_jobs[c] > 0 /\ es_jobs'[c] # es_jobs[c])
            => es_jobs'[c] = es_jobs[c] + 1]_vars


\* C32: the documents of the search index have ids of one kind: names of
\* companies, or last segments of job urls, never both.
C32_SingleIdStrategy ==
    ~ (/\ es_job_docs # {}
       /\ \E c \in DOMAIN es_jobs : es_jobs[c] > 0)


\* C33: extract_job_data returns None only for a page without the
\* JobListing div, and for a page with it every field the page holds is in
\* what it returns, whatever the extraction of another part of the page
\* did.
C33_FieldsIndependent ==
    ex_extractor # "none"
      => /\ ex_result.returned = "None" => ~ex_page.anchor
         /\ ex_page.anchor => ex_page.has \subseteq ex_result.fields


\* C34: in every state of the stores, a base url whose value is true in
\* wellfound_urls.json has every job link its pages showed in job_urls.
C34_DoneHasPayload ==
    \A u \in DOMAIN so_found :
       urls_file[u]
         => \A h \in so_found[u] : \E d \in job_urls : d.url = JobUrl(h)


\* C35: the page loop of a base url, once started, returns, whatever the
\* gateway answers.
C35_PageLoopReturns == (pl_pc = "fetching") ~> (pl_pc = "returned")


\* C36: no call of wait_if_needed of an adaptive limiter raises, whatever
\* the configured rate and the adaptive factor, the window empty or not.
C36_WaitNeverRaises == raised = FALSE


\* C37: the url of a search page stored after its 404 answer is not in the
\* work-set that the job-page stage reads from job_urls.
C37_NotFoundPageNotInWorkSet ==
    \A u \in BaseUrls : \A p \in 1..MaxPage :
        NotFoundDoc(u, p) \in job_urls => PageUrl(u, p) \notin WorkSet(job_urls)


\* C38: a worker that finds its job url already in job_data, the entry of
\* job_urls not marked, leaves the entry marked scraped: the url is out of
\* the work-set of the next run.
C38_StoredJobLeavesWorkSet ==
    [][\A j \in JobKeys :
         (/\ sj_wpc[j] = "queued"
          /\ \E d \in job_data : d.url = JobUrl(j)
          /\ sj_wpc'[j] = "done")
         => j \notin Unscraped(job_urls')]_vars


\* C39: in a run of an indexing script that follows a run of the same
\* script which indexed every document, the collection unchanged, no
\* document of the index changes: no list of jobs grows.
C39_SecondRunChangesNothing ==
    [][ix_prev = ix_script
         => (es_jobs' = es_jobs /\ es_job_docs' = es_job_docs)]_vars


\* C40: once signal_handler is called, its flush ends and the process
\* exits, wherever main and the workers were.
C40_HandlerReachesExit == (bl_handler = "called") ~> (bl_main = "exited")
=============================================================================
